---- MODULE Spec2Model ----
(***************************************************************************)
(* The session synchronization core of collab-canvas: the useRealtimeRoom  *)
(* hook (throttled code broadcast, join handshake, role-gated handlers,    *)
(* local room cache) running in several browser tabs that share a          *)
(* publish/subscribe channel per room.                                     *)
(***************************************************************************)
EXTENDS Integers, Sequences, FiniteSets, TLC

-----------------------------------------------------------------------------
(* Program constants *)

SYNC_INTERVAL == 50

WB_INTERVAL == 100

DEBOUNCE == 100

THROTTLE == 100

Placeholder == "// Connecting to room..."

DefaultCode(language) ==
    IF language = "javascript" THEN "js default" ELSE "py default"

(* Bounds of the model *)

TickMs == 25

MaxTicks == 2

MaxEdits == 3

FewEdits == 1

MaxDraws == 1

MaxMounts == 2

MaxRejoins == 1

MaxInbox == 2

MaxRooms == 2

MaxForeign == 1

MaxShapes == 3

MaxShapeValue == 2

MaxLocalChanges == 1

MaxRemote == 2

ThrowDraws == 2

ThrowRemote == 1

BoardTicks == 8

BoardDraws == 2

BoardRemote == 1

MaxColumn == 2

EarlyTicks == 2

SwitchTicks == 4

MaxSwitches == 2

MaxEntries == 2

ShapeIdSeq == <<"A", "B", "C", "D">>

ShapeIds == {ShapeIdSeq[i] : i \in 1..Len(ShapeIdSeq)}

ShapeValues == 1..MaxShapeValue

Shapes == [id : ShapeIds, v : ShapeValues]

(* The shapes the local user draws or erases *)
LocalShapes == {shape \in Shapes : shape.id = ShapeIdSeq[1]}

Peers == {"p1", "p2"}

Creators == {"p1"}

(* The tab the board scenario and the presence scenario follow *)
Drawer == "p1"

RoomSeq == <<"r1", "r2", "r3">>

RoomIds == {RoomSeq[i] : i \in 1..MaxRooms}

Languages == {"javascript", "python"}

EditCodes == {"a", "b"}

Snapshots == {<<"s1">>, <<"s2">>}

Null == [null |-> TRUE]

NoCode == "<null>"

NoSnapshot == <<>>

(* The roomId argument when the URL carries no room *)
NoRoomId == "<undefined>"

NoMsg == [event |-> "none"]

(* hooks/useRoom.ts: the placeholder of a room unknown to the cache, the
   useState initial values, and the error localStorage.setItem throws when
   the quota is exceeded *)
LoadingPlaceholder == "// Loading room content..."

MaxRuns == 2

Runs == 1..MaxRuns

(* The console methods installed before any run *)
Native == 0

(* What a thrown or rejected value is: an Error, null or undefined, or an
   object whose name and message accessors throw an Error or null *)
Thrown == {"Error", "null", "trapError", "trapNull"}

NotThrown == "none"

(* A call of runCode that has not been made *)
NotCalled ==
    [pc |-> "idle", language |-> "none", original |-> Native, logs |-> <<>>,
     lines |-> <<>>, fault |-> FALSE]

InitialState ==
    [room |-> Null, isViewOnly |-> FALSE, loading |-> TRUE, mounted |-> FALSE]

QuotaExceededError == "QuotaExceededError"

NoError == "<none>"

Corrupt == [corrupt |-> TRUE]

StartTime == 2 * WB_INTERVAL

(* What the environment of one run may do: how long the clock runs, how    *)
(* many edits, draws, mounts per tab and socket rejoins happen, whether    *)
(* the cache can fail, whether the channel loses and reorders broadcasts,  *)
(* the channel's broadcast.self setting, how many rooms are created, and   *)
(* whether clients other than this hook publish on the channel, whether    *)
(* the canvas is read-only, whether the canvas is wired to the hook, and   *)
(* whether the run follows the presence records, and whether the host    *)
(* calls the hook's functions before the mount effect has run, and how    *)
(* often the roomId argument of a mounted hook changes.                    *)
Scenario(ticks, edits, draws, mnts, rejoins, faults, lossy, self) ==
    [ticks |-> ticks, edits |-> edits, draws |-> draws, mounts |-> mnts,
     rejoins |-> rejoins, faults |-> faults, lossy |-> lossy, self |-> self,
     rooms |-> 1, foreign |-> FALSE, readOnly |-> FALSE, board |-> FALSE,
     presence |-> FALSE, early |-> FALSE, switches |-> 0, throws |-> FALSE,
     replace |-> FALSE]

EditScenario == Scenario(MaxTicks, MaxEdits, 0, 1, 0, FALSE, FALSE, FALSE)

ReloadScenario == Scenario(0, FewEdits, 0, MaxMounts, 0, FALSE, FALSE, FALSE)

FaultScenario == Scenario(0, FewEdits, 0, 1, 0, TRUE, FALSE, FALSE)

RejoinScenario == Scenario(0, FewEdits, 0, 1, MaxRejoins, FALSE, FALSE, FALSE)

LossyScenario == Scenario(0, FewEdits, MaxDraws, 1, 0, FALSE, TRUE, FALSE)

EchoScenario == Scenario(0, FewEdits + 1, MaxDraws, 1, 0, FALSE, FALSE, TRUE)

CreateScenario ==
    [Scenario(0, FewEdits, 0, 1, 0, FALSE, FALSE, FALSE)
        EXCEPT !.rooms = MaxRooms]

ReorderScenario == Scenario(MaxTicks, FewEdits + 1, 0, 1, 0, FALSE, TRUE, FALSE)

ForeignScenario ==
    [Scenario(0, FewEdits, 0, 1, 0, FALSE, FALSE, FALSE)
        EXCEPT !.foreign = TRUE]

CanvasScenario == Scenario(0, 0, MaxLocalChanges, 1, 0, FALSE, FALSE, FALSE)

ReadOnlyCanvasScenario == [CanvasScenario EXCEPT !.readOnly = TRUE]

ThrowingCanvasScenario ==
    [CanvasScenario EXCEPT !.throws = TRUE, !.draws = ThrowDraws]

(* The canvas that replaces the whole document on a remote snapshot *)
ReplaceCanvasScenario == [ThrowingCanvasScenario EXCEPT !.replace = TRUE]

BoardScenario ==
    [Scenario(BoardTicks, 0, BoardDraws, 1, 0, FALSE, FALSE, FALSE)
        EXCEPT !.board = TRUE]

PresenceScenario ==
    [Scenario(0, 0, 0, MaxMounts, 0, FALSE, FALSE, FALSE)
        EXCEPT !.presence = TRUE]

SwitchScenario ==
    [Scenario(SwitchTicks, FewEdits + 1, 1, 1, 0, FALSE, FALSE, FALSE)
        EXCEPT !.board = TRUE, !.rooms = MaxRooms, !.switches = MaxSwitches]

ResubscribeScenario ==
    [Scenario(0, FewEdits, 0, 1, 0, FALSE, FALSE, FALSE)
        EXCEPT !.rooms = MaxRooms, !.switches = MaxSwitches]

EarlyScenario ==
    [Scenario(EarlyTicks, FewEdits + 1, MaxDraws, 1, 0, FALSE, FALSE, FALSE)
        EXCEPT !.early = TRUE]

UseRoomScenario ==
    [Scenario(0, FewEdits + 1, 0, MaxMounts, 0, TRUE, FALSE, FALSE)
        EXCEPT !.rooms = MaxRooms]

Scenarios == {EditScenario, ReloadScenario, FaultScenario, RejoinScenario,
              LossyScenario, EchoScenario, CreateScenario, ForeignScenario,
              ReorderScenario}

-----------------------------------------------------------------------------
VARIABLES
    now,            \* Date.now()
    storage,        \* localStorage[STORAGE_KEY] of each tab's browser
    used,           \* how many rooms, edits and draws the run has made so far
    mounts,         \* number of hook instances each tab has mounted
    rejoins,        \* socket rejoins of each tab's channel so far
    cfg,            \* the scenario of this run
    room,           \* useState room
    isViewOnly,     \* useState isViewOnly
    isOwnerRef,     \* isOwnerRef.current
    chan,           \* channelRef.current: topic and subscription status
    pendingCode,    \* pendingCodeRef.current
    syncTimer,      \* the deferred send scheduled through syncTimerRef
    lastSync,       \* lastSyncRef.current
    wbRef,          \* whiteboardSnapshotRef.current
    lastWbSync,     \* lastWhiteboardSyncRef.current
    remoteWb,       \* useState remoteWhiteboardSnapshot
    inbox,          \* broadcasts in flight to each tab
    stats,          \* per tab: subscribe confirmations seen, request_state sent
    bcast,          \* per tab: the code_update sends made so far
    lastEdit,       \* per tab: the code of the last effective updateCode call
    last,           \* the operation that produced this state and what it sent
    editor,         \* the shapes on the canvas editor's current page
    lastSnapshotRef,\* the canvas' lastSnapshotRef.current
    drawn,          \* how many local canvas changes the run has made so far
    applied,        \* the last run of the canvas' remote snapshot effect
    timeoutId,      \* the canvas' pending debounce timer
    onSnapshot,     \* the snapshots handed to the onSnapshot callback so far
    pendingHistory, \* store changes not yet delivered to the store listener
    isApplyingRemote, \* the canvas' isApplyingRemote.current
    drawnAt,        \* Date.now() at the last local canvas change
    tracked,        \* the presence record each tab has published by track()
    remotePresence, \* useState remotePresence
    connectedUsers, \* useState connectedUsers
    roomIdFromUrl,  \* the roomId argument of each tab's hook
    useRoom,        \* useState room, isViewOnly and loading of hooks/useRoom.ts
    uncaught,       \* the errors that escaped from a hook call, per tab
    status,         \* useState status of hooks/useCodeRunner.ts
    output,         \* useState output of the code runner: the lines' types
    console,        \* whose methods console.log, error, warn and info are
    runs,           \* the calls of runCode: where each is and what it holds
    pyodideRef      \* whether pyodideRef.current holds the Python runtime

budgetVars == <<used, mounts, rejoins, cfg>>

reactVars == <<room, isViewOnly, isOwnerRef>>

throttleVars == <<pendingCode, syncTimer, lastSync>>

wbVars == <<wbRef, lastWbSync>>

ghostVars == <<stats, bcast, lastEdit>>

presenceVars == <<tracked, remotePresence, connectedUsers>>

useRoomVars == <<useRoom, uncaught>>

runnerVars == <<status, output, console, runs, pyodideRef>>

roomVars == <<now, storage, budgetVars, reactVars, chan, throttleVars, wbVars,
              remoteWb, inbox, ghostVars, last, presenceVars, roomIdFromUrl,
              useRoomVars,
                   runnerVars>>

canvasVars == <<editor, lastSnapshotRef, drawn, applied, timeoutId, onSnapshot,
                pendingHistory, drawnAt, isApplyingRemote>>

vars == <<roomVars, canvasVars>>

-----------------------------------------------------------------------------
(* Helpers *)

BrowserOf(p) == p

userId(p) == <<p, mounts[p]>>

Mounted(p) == room[p] # Null

(* The functions the hook returns can be called once it has rendered; the
   page calls them only when the mount effect has set a room *)
Rendered(p) == Mounted(p) \/ cfg.early

RemoveAt(s, i) == SubSeq(s, 1, i - 1) \o SubSeq(s, i + 1, Len(s))

(* The handlers of tab q receive the broadcasts of a topic: through the
   channel of channelRef once it has joined, or through a channel of the
   tab that was never removed *)
Listening(q, topic) ==
    /\ chan[q] # Null
    /\ \/ chan[q].topic = topic /\ chan[q].status \in {"tracking", "joined"}
       \/ topic \in chan[q].stale

Recipients(p) ==
    IF chan[p] = Null THEN {}
    ELSE {q \in Peers : /\ Listening(q, chan[p].topic)
                        /\ (q # p \/ cfg.self)}

CanSend(p) == \A q \in Recipients(p) : Len(inbox[q]) < MaxInbox

Broadcast(box, p, msg) ==
    IF msg = NoMsg THEN box
    ELSE [q \in Peers |->
            IF q \in Recipients(p) THEN Append(box[q], msg) ELSE box[q]]

Deliverable(p, i, event) ==
    /\ i \in 1..Len(inbox[p])
    /\ i = 1 \/ cfg.lossy
    /\ inbox[p][i].event = event

QuotaOutcomes == IF cfg.faults THEN BOOLEAN ELSE {FALSE}

Did(op, p, arg, sent) == [op |-> op, peer |-> p, arg |-> arg, sent |-> sent]

NoStats == [confirms |-> 0, requests |-> 0, served |-> FALSE, ts |-> 0]

NoSends == [n |-> 0, first |-> 0, at |-> 0, code |-> NoCode,
            language |-> "javascript", unsent |-> FALSE, switch |-> "none"]

Sent(b, msg) ==
    IF msg = NoMsg THEN b
    ELSE [n |-> b.n + 1, first |-> IF b.n = 0 THEN now ELSE b.first,
          at |-> now, code |-> msg.code, language |-> msg.language,
          unsent |-> FALSE, switch |-> b.switch]

(* The record of sends after an updateCode call: the payload of the call is
   unsent when the call itself sent nothing *)
Edited(b, msg) ==
    IF msg = NoMsg THEN [b EXCEPT !.unsent = TRUE] ELSE Sent(b, msg)

-----------------------------------------------------------------------------
(* Local cache *)

getStoredRoom(st, id) ==
    IF st = Corrupt THEN Null ELSE st[id]

saveToStorage(st, roomData, quotaExceeded) ==
    IF st = Corrupt \/ quotaExceeded THEN st
    ELSE [st EXCEPT ![roomData.id] = roomData]

-----------------------------------------------------------------------------
(* Messages *)

CodeUpdateMsg(p, code, language) ==
    [event |-> "code_update", code |-> code, language |-> language,
     updatedBy |-> userId(p), timestamp |-> now]

LanguageUpdateMsg(p, code, language) ==
    [event |-> "code_update", code |-> code, language |-> language,
     updatedBy |-> userId(p)]

RequestStateMsg(p) ==
    [event |-> "request_state", userId |-> userId(p)]

SyncStateMsg(currentRoom, whiteboard) ==
    [event |-> "sync_state", code |-> currentRoom.code,
     language |-> currentRoom.language, whiteboard |-> whiteboard,
     fromOwner |-> TRUE]

WhiteboardUpdateMsg(p, snapshot) ==
    [event |-> "whiteboard_update", snapshot |-> snapshot,
     updatedBy |-> userId(p), timestamp |-> now]

-----------------------------------------------------------------------------
InitIn(scenarios) ==
    /\ cfg \in scenarios
    /\ now = StartTime
    /\ storage = [b \in Peers |-> [id \in RoomIds |-> Null]]
    /\ used = [rooms |-> 0, edits |-> 0, draws |-> 0, foreign |-> 0,
               switches |-> 0]
    /\ mounts = [p \in Peers |-> 0]
    /\ rejoins = [p \in Peers |-> 0]
    /\ room = [p \in Peers |-> Null]
    /\ isViewOnly = [p \in Peers |-> FALSE]
    /\ isOwnerRef = [p \in Peers |-> FALSE]
    /\ chan = [p \in Peers |-> Null]
    /\ pendingCode = [p \in Peers |-> NoCode]
    /\ syncTimer = [p \in Peers |-> Null]
    /\ lastSync = [p \in Peers |-> 0]
    /\ wbRef = [p \in Peers |-> NoSnapshot]
    /\ lastWbSync = [p \in Peers |-> 0]
    /\ remoteWb = [p \in Peers |-> NoSnapshot]
    /\ inbox = [p \in Peers |-> <<>>]
    /\ stats = [p \in Peers |-> NoStats]
    /\ bcast = [p \in Peers |-> NoSends]
    /\ lastEdit = [p \in Peers |-> NoCode]
    /\ last = Did("init", "none", Null, NoMsg)
    /\ editor = {}
    /\ lastSnapshotRef = <<>>
    /\ drawn = 0
    /\ applied = Null
    /\ timeoutId = Null
    /\ onSnapshot = <<>>
    /\ pendingHistory = FALSE
    /\ isApplyingRemote = FALSE
    /\ drawnAt = 0
    /\ tracked = [p \in Peers |-> Null]
    /\ remotePresence = [p \in Peers |-> <<>>]
    /\ connectedUsers = [p \in Peers |-> 1]
    /\ roomIdFromUrl = [p \in Peers |-> NoRoomId]
    /\ useRoom = [p \in Peers |-> InitialState]
    /\ uncaught = [p \in Peers |-> {}]
    /\ status = "idle"
    /\ output = <<>>
    /\ console = Native
    /\ runs = [r \in Runs |-> NotCalled]
    /\ pyodideRef = FALSE

Init == InitIn(Scenarios)

-----------------------------------------------------------------------------
(* subscribeToChannel: a new channel for room:{id}, not yet joined *)
subscribeToChannel(id) == [topic |-> id, status |-> "joining", stale |-> {}]

(* A mount that takes the owner role when the cache has no record *)
initialRoomOwnerWithoutRecord(storedRoom, roomId) ==
    IF storedRoom # Null /\ ~storedRoom.isOwner
    THEN [id |-> roomId, code |-> Placeholder, language |-> "javascript",
          isOwner |-> FALSE]
    ELSE [id |-> roomId,
          code |-> IF storedRoom # Null THEN storedRoom.code
                   ELSE DefaultCode("javascript"),
          language |-> "javascript", isOwner |-> TRUE]

(* A mount that joins as viewer whatever the cache holds *)
initialRoomIgnoringCache(storedRoom, roomId) ==
    [id |-> roomId, code |-> Placeholder, language |-> "javascript",
     isOwner |-> FALSE]

(* The room a mount with a roomId starts from *)
initialRoom(storedRoom, roomId) ==
    IF storedRoom # Null /\ storedRoom.isOwner
    THEN [id |-> storedRoom.id, code |-> storedRoom.code,
          language |-> storedRoom.language, isOwner |-> TRUE]
    ELSE [id |-> roomId, code |-> Placeholder, language |-> "javascript",
          isOwner |-> FALSE]

(* The room ids a URL can carry: the first room's or a created room's *)
Joinable(roomId) ==
    \E i \in 1..MaxRooms : RoomSeq[i] = roomId /\ (i = 1 \/ i <= used.rooms)

(* The mount effect with a roomId *)
Mount(p, roomId) ==
    /\ ~Mounted(p)
    /\ Joinable(roomId)
    /\ mounts[p] < cfg.mounts
    /\ mounts' = [mounts EXCEPT ![p] = @ + 1]
    /\ LET storedRoom == getStoredRoom(storage[BrowserOf(p)], roomId)
           joined == initialRoom(storedRoom, roomId)
       IN /\ isOwnerRef' = [isOwnerRef EXCEPT ![p] = joined.isOwner]
          /\ room' = [room EXCEPT ![p] = joined]
          /\ isViewOnly' = [isViewOnly EXCEPT ![p] = ~joined.isOwner]
    /\ chan' = [chan EXCEPT ![p] = subscribeToChannel(roomId)]
    /\ roomIdFromUrl' = [roomIdFromUrl EXCEPT ![p] = roomId]
    /\ last' = Did("mount", p, roomId, NoMsg)
    /\ UNCHANGED <<now, storage, used, rejoins, cfg, throttleVars, wbVars,
                   remoteWb, inbox, ghostVars>>
    /\ UNCHANGED <<canvasVars, presenceVars, useRoomVars,
                   runnerVars>>

(* createRoom *)
createRoom(id, language) ==
    [id |-> id, code |-> DefaultCode(language), language |-> language,
     isOwner |-> TRUE]

(* The mount effect without a roomId: createRoom, then subscribe *)
MountNew(p, quotaExceeded) ==
    /\ ~Mounted(p)
    /\ mounts[p] < cfg.mounts
    /\ used.rooms < cfg.rooms
    /\ mounts' = [mounts EXCEPT ![p] = @ + 1]
    /\ used' = [used EXCEPT !.rooms = @ + 1]
    /\ LET newRoom == createRoom(RoomSeq[used.rooms + 1], "javascript")
       IN /\ isOwnerRef' = [isOwnerRef EXCEPT ![p] = TRUE]
          /\ storage' = [storage EXCEPT ![BrowserOf(p)] =
                            saveToStorage(@, newRoom, quotaExceeded)]
          /\ room' = [room EXCEPT ![p] = newRoom]
          /\ isViewOnly' = [isViewOnly EXCEPT ![p] = FALSE]
          /\ chan' = [chan EXCEPT ![p] = subscribeToChannel(newRoom.id)]
    /\ last' = Did("mountNew", p, Null, NoMsg)
    /\ UNCHANGED <<now, rejoins, cfg, throttleVars, wbVars, remoteWb, inbox,
                   ghostVars>>
    /\ UNCHANGED <<canvasVars, presenceVars, roomIdFromUrl, useRoomVars,
                   runnerVars>>

(* A createRoom that leaves the view-only state as it is *)
CreateRoomKeepsViewOnly(p, quotaExceeded) ==
    /\ Mounted(p)
    /\ used.rooms < cfg.rooms
    /\ ~\E q \in Peers : chan[q] # Null /\ chan[q].topic = RoomSeq[used.rooms + 1]
    /\ used' = [used EXCEPT !.rooms = @ + 1]
    /\ LET newRoom == createRoom(RoomSeq[used.rooms + 1], "javascript")
       IN /\ isOwnerRef' = [isOwnerRef EXCEPT ![p] = TRUE]
          /\ storage' = [storage EXCEPT ![BrowserOf(p)] =
                            saveToStorage(@, newRoom, quotaExceeded)]
          /\ room' = [room EXCEPT ![p] = newRoom]
          /\ last' = Did("createRoom", p, newRoom.id, NoMsg)
    /\ UNCHANGED <<now, mounts, rejoins, cfg, chan, throttleVars, wbVars,
                   remoteWb, inbox, ghostVars, isViewOnly>>
    /\ UNCHANGED <<canvasVars, presenceVars, roomIdFromUrl, useRoomVars,
                   runnerVars>>

(* createRoom called through the hook's returned API on a mounted hook:
   the channel subscription is left as it is *)
CreateRoom(p, quotaExceeded) ==
    /\ Mounted(p)
    /\ used.rooms < cfg.rooms
    /\ ~\E q \in Peers : chan[q] # Null /\ chan[q].topic = RoomSeq[used.rooms + 1]
    /\ used' = [used EXCEPT !.rooms = @ + 1]
    /\ LET newRoom == createRoom(RoomSeq[used.rooms + 1], "javascript")
       IN /\ isOwnerRef' = [isOwnerRef EXCEPT ![p] = TRUE]
          /\ storage' = [storage EXCEPT ![BrowserOf(p)] =
                            saveToStorage(@, newRoom, quotaExceeded)]
          /\ room' = [room EXCEPT ![p] = newRoom]
          /\ isViewOnly' = [isViewOnly EXCEPT ![p] = FALSE]
          /\ last' = Did("createRoom", p, newRoom.id, NoMsg)
    /\ UNCHANGED <<now, mounts, rejoins, cfg, chan, throttleVars, wbVars,
                   remoteWb, inbox, ghostVars>>
    /\ UNCHANGED <<canvasVars, presenceVars, roomIdFromUrl, useRoomVars,
                   runnerVars>>

(* The page renders the canvas only while the hook has a room: with the
   hook the canvas unmounts, its effect cleanup clears the debounce timer,
   and the editor, the refs and the record of what the instance handed to
   onSnapshot are gone *)
CanvasUnmount(p) ==
    IF cfg.board /\ p = Drawer
    THEN /\ editor' = {}
         /\ lastSnapshotRef' = <<>>
         /\ timeoutId' = Null
         /\ pendingHistory' = FALSE
         /\ onSnapshot' = <<>>
         /\ drawnAt' = 0
         /\ isApplyingRemote' = FALSE
         /\ UNCHANGED <<drawn, applied>>
    ELSE UNCHANGED canvasVars

(* The mount effect's cleanup; the hook instance and its refs are gone *)
Unmount(p) ==
    /\ Mounted(p)
    /\ room' = [room EXCEPT ![p] = Null]
    /\ isViewOnly' = [isViewOnly EXCEPT ![p] = FALSE]
    /\ isOwnerRef' = [isOwnerRef EXCEPT ![p] = FALSE]
    /\ chan' = [chan EXCEPT ![p] = Null]
    /\ pendingCode' = [pendingCode EXCEPT ![p] = NoCode]
    /\ syncTimer' = [syncTimer EXCEPT ![p] = Null]
    /\ lastSync' = [lastSync EXCEPT ![p] = 0]
    /\ wbRef' = [wbRef EXCEPT ![p] = NoSnapshot]
    /\ lastWbSync' = [lastWbSync EXCEPT ![p] = 0]
    /\ remoteWb' = [remoteWb EXCEPT ![p] = NoSnapshot]
    /\ inbox' = [inbox EXCEPT ![p] = <<>>]
    /\ stats' = [stats EXCEPT ![p] = NoStats]
    /\ bcast' = [bcast EXCEPT ![p] = NoSends]
    /\ lastEdit' = [lastEdit EXCEPT ![p] = NoCode]
    /\ last' = Did("unmount", p, Null, NoMsg)
    /\ tracked' = [tracked EXCEPT ![p] = Null]
    /\ remotePresence' = [remotePresence EXCEPT ![p] = <<>>]
    /\ connectedUsers' = [connectedUsers EXCEPT ![p] = 1]
    /\ roomIdFromUrl' = [roomIdFromUrl EXCEPT ![p] = NoRoomId]
    /\ UNCHANGED <<now, storage, budgetVars, useRoomVars,
                   runnerVars>>
    /\ CanvasUnmount(p)

(* The store listener effect of the canvas depends on isReadOnly: when the
   prop changes, its cleanup unsubscribes the listener and clears the
   debounce timer; otherwise listener and timer stay *)
CanvasRoleChange(p) ==
    IF cfg.board /\ p = Drawer /\ isViewOnly'[p] # isViewOnly[p]
    THEN /\ timeoutId' = Null
         /\ pendingHistory' = FALSE
         /\ UNCHANGED <<editor, lastSnapshotRef, drawn, applied, onSnapshot,
                        drawnAt, isApplyingRemote>>
    ELSE UNCHANGED canvasVars

(* A subscribe that does not remove the channel the hook holds *)
resubscribeKeepsChannel(current, id) ==
    [subscribeToChannel(id) EXCEPT !.stale =
        IF current = Null THEN {} ELSE current.stale \cup {current.topic}]

(* subscribeToChannel on a hook that may hold a channel: remove it, then
   make the new one *)
resubscribe(current, id) == subscribeToChannel(id)

(* The roomId argument of a mounted hook changes: the mount effect's cleanup
   clears the deferred-send timer and removes the channel, then the effect
   runs again in the same hook instance, whose refs and state stay. The
   step notes what was in flight and which timers were pending before it *)
ChangeRoom(p, target, quotaExceeded) ==
    /\ Mounted(p)
    /\ target # roomIdFromUrl[p]
    /\ used.switches < cfg.switches
    /\ roomIdFromUrl' = [roomIdFromUrl EXCEPT ![p] = target]
    /\ syncTimer' = [syncTimer EXCEPT ![p] = Null]
    /\ inbox' = [inbox EXCEPT ![p] = <<>>]
    /\ IF target # NoRoomId
       THEN /\ Joinable(target)
            /\ used' = [used EXCEPT !.switches = @ + 1]
            /\ LET storedRoom == getStoredRoom(storage[BrowserOf(p)], target)
                   joined == initialRoom(storedRoom, target)
               IN /\ isOwnerRef' = [isOwnerRef EXCEPT ![p] = joined.isOwner]
                  /\ room' = [room EXCEPT ![p] = joined]
                  /\ isViewOnly' = [isViewOnly EXCEPT ![p] = ~joined.isOwner]
            /\ chan' = [chan EXCEPT ![p] = resubscribe(@, target)]
            /\ UNCHANGED storage
       ELSE /\ used.rooms < cfg.rooms
            /\ used' = [used EXCEPT !.switches = @ + 1, !.rooms = @ + 1]
            /\ LET newRoom == createRoom(RoomSeq[used.rooms + 1], "javascript")
               IN /\ isOwnerRef' = [isOwnerRef EXCEPT ![p] = TRUE]
                  /\ storage' = [storage EXCEPT ![BrowserOf(p)] =
                                    saveToStorage(@, newRoom, quotaExceeded)]
                  /\ room' = [room EXCEPT ![p] = newRoom]
                  /\ isViewOnly' = [isViewOnly EXCEPT ![p] = FALSE]
                  /\ chan' = [chan EXCEPT ![p] = resubscribe(@, newRoom.id)]
    /\ tracked' = [tracked EXCEPT ![p] = Null]
    /\ last' = Did("changeRoom", p,
                   [target |-> target, inFlight |-> Len(inbox[p]),
                    timer |-> syncTimer[p] # Null,
                    debounce |-> timeoutId # Null], NoMsg)
    /\ UNCHANGED <<now, mounts, rejoins, cfg, pendingCode, lastSync, wbVars,
                   remoteWb, ghostVars, remotePresence, connectedUsers,
                   useRoomVars,
                   runnerVars>>
    /\ CanvasRoleChange(p)

-----------------------------------------------------------------------------
(* An argument or field that is undefined *)
Undefined == [undefined |-> TRUE]

(* JSON of one field of an object: a field that is undefined is left out *)
JsonField(name, value) ==
    IF value = Undefined THEN [f \in {} |-> value] ELSE [f \in {name} |-> value]

(* The presence payload the hook builds, as the channel serializes it *)
PresencePayload(key, isOwner, cursor, selection) ==
    [user_id |-> key, is_owner |-> isOwner]
        @@ JsonField("cursor", cursor) @@ JsonField("selection", selection)

(* channel.track: the record the channel publishes under the tab's key *)
track(p, cursor, selection) ==
    PresencePayload(userId(p), isOwnerRef[p], cursor, selection)

(* channel.subscribe callback: status SUBSCRIBED, up to the awaited track *)
SubscribeConfirm(p) ==
    /\ chan[p] # Null
    /\ chan[p].status = "joining"
    /\ chan' = [chan EXCEPT ![p].status = "tracking"]
    /\ stats' = [stats EXCEPT ![p].confirms = @ + 1]
    /\ last' = Did("subscribed", p, Null, NoMsg)
    /\ tracked' = IF cfg.presence
                  THEN [tracked EXCEPT ![p] = track(p, Undefined, Undefined)]
                  ELSE tracked
    /\ UNCHANGED <<now, storage, budgetVars, reactVars, throttleVars, wbVars,
                   remoteWb, inbox, bcast, lastEdit>>
    /\ UNCHANGED <<canvasVars, remotePresence, connectedUsers, roomIdFromUrl,
                   useRoomVars,
                   runnerVars>>

(* A callback that asks for the state on the first confirmation only *)
requestFirstTimeOnly(p) ==
    IF ~isOwnerRef[p] /\ stats[p].requests = 0
    THEN RequestStateMsg(p)
    ELSE NoMsg

(* What the callback sends once the awaited track has resolved *)
requestOnSubscribed(p) ==
    IF ~isOwnerRef[p] THEN RequestStateMsg(p) ELSE NoMsg

(* channel.subscribe callback after the awaited track resolves *)
TrackResolved(p) ==
    /\ chan[p] # Null
    /\ chan[p].status = "tracking"
    /\ CanSend(p)
    /\ chan' = [chan EXCEPT ![p].status = "joined"]
    /\ LET sent == requestOnSubscribed(p)
       IN /\ inbox' = Broadcast(inbox, p, sent)
          /\ stats' = [stats EXCEPT ![p].requests =
                          IF sent = NoMsg THEN @ ELSE @ + 1]
          /\ last' = Did("trackResolved", p, Null, sent)
    /\ UNCHANGED <<now, storage, budgetVars, reactVars, throttleVars, wbVars,
                   remoteWb, bcast, lastEdit>>
    /\ UNCHANGED <<canvasVars, presenceVars, roomIdFromUrl, useRoomVars,
                   runnerVars>>

(* The socket drops and the channel rejoins: broadcasts in flight are lost *)
Rejoin(p) ==
    /\ chan[p] # Null
    /\ chan[p].status = "joined"
    /\ rejoins[p] < cfg.rejoins
    /\ rejoins' = [rejoins EXCEPT ![p] = @ + 1]
    /\ chan' = [chan EXCEPT ![p].status = "joining"]
    /\ inbox' = [inbox EXCEPT ![p] = <<>>]
    /\ last' = Did("rejoin", p, Null, NoMsg)
    /\ UNCHANGED <<now, storage, used, mounts, cfg, reactVars, throttleVars,
                   wbVars, remoteWb, ghostVars>>
    /\ UNCHANGED <<canvasVars, presenceVars, roomIdFromUrl, useRoomVars,
                   runnerVars>>

-----------------------------------------------------------------------------
(* A broadcaster that sends on every call *)
broadcastUnthrottledSends(p, code, language) ==
    IF chan[p] # Null THEN CodeUpdateMsg(p, code, language) ELSE NoMsg

(* A broadcaster that keeps the first pending payload of a window *)
broadcastKeepsFirstPending(p, code, language) ==
    IF chan[p] = Null
    THEN UNCHANGED throttleVars
    ELSE IF now - lastSync[p] >= SYNC_INTERVAL
    THEN /\ lastSync' = [lastSync EXCEPT ![p] = now]
         /\ pendingCode' = [pendingCode EXCEPT ![p] = NoCode]
         /\ UNCHANGED syncTimer
    ELSE /\ pendingCode' = [pendingCode EXCEPT ![p] =
                IF @ = NoCode THEN code ELSE @]
         /\ syncTimer' = [syncTimer EXCEPT ![p] =
                [due |-> now + (SYNC_INTERVAL - (now - lastSync[p])),
                 language |-> language]]
         /\ UNCHANGED lastSync

(* broadcastCodeUpdate: what the call itself sends, NoMsg when nothing *)
broadcastCodeUpdateSends(p, code, language) ==
    IF chan[p] # Null /\ now - lastSync[p] >= SYNC_INTERVAL
    THEN CodeUpdateMsg(p, code, language)
    ELSE NoMsg

(* A broadcaster whose immediate send leaves the pending slot filled *)
broadcastCodeUpdateKeepsPending(p, code, language) ==
    IF chan[p] = Null
    THEN UNCHANGED throttleVars
    ELSE IF now - lastSync[p] >= SYNC_INTERVAL
    THEN /\ lastSync' = [lastSync EXCEPT ![p] = now]
         /\ pendingCode' = [pendingCode EXCEPT ![p] = code]
         /\ UNCHANGED syncTimer
    ELSE /\ pendingCode' = [pendingCode EXCEPT ![p] = code]
         /\ syncTimer' = [syncTimer EXCEPT ![p] =
                [due |-> now + (SYNC_INTERVAL - (now - lastSync[p])),
                 language |-> language]]
         /\ UNCHANGED lastSync

(* broadcastCodeUpdate: the refs after the call *)
broadcastCodeUpdate(p, code, language) ==
    IF chan[p] = Null
    THEN UNCHANGED throttleVars
    ELSE IF now - lastSync[p] >= SYNC_INTERVAL
    THEN /\ lastSync' = [lastSync EXCEPT ![p] = now]
         /\ pendingCode' = [pendingCode EXCEPT ![p] = NoCode]
         /\ UNCHANGED syncTimer
    ELSE /\ pendingCode' = [pendingCode EXCEPT ![p] = code]
         /\ syncTimer' = [syncTimer EXCEPT ![p] =
                [due |-> now + (SYNC_INTERVAL - (now - lastSync[p])),
                 language |-> language]]
         /\ UNCHANGED lastSync

(* Edit handlers without the view-only check *)
editAllowedForViewers(p) == room[p] # Null

(* updateCode and updateLanguage return early without a room or when view-only *)
editAllowed(p) == room[p] # Null /\ ~isViewOnly[p]

(* updateCode *)
UpdateCode(p, code, quotaExceeded) ==
    /\ Rendered(p)
    /\ CanSend(p)
    /\ used.edits < cfg.edits
    /\ used' = [used EXCEPT !.edits = @ + 1]
    /\ IF ~editAllowed(p)
       THEN /\ last' = Did("updateCode", p, code, NoMsg)
            /\ UNCHANGED <<room, storage, throttleVars, inbox, bcast, lastEdit>>
       ELSE LET updatedRoom == [room[p] EXCEPT !.code = code]
                sent == broadcastCodeUpdateSends(p, code, room[p].language)
            IN /\ room' = [room EXCEPT ![p] = updatedRoom]
               /\ storage' = [storage EXCEPT ![BrowserOf(p)] =
                                 saveToStorage(@, updatedRoom, quotaExceeded)]
               /\ broadcastCodeUpdate(p, code, room[p].language)
               /\ inbox' = Broadcast(inbox, p, sent)
               /\ bcast' = [bcast EXCEPT ![p] = Edited(@, sent)]
               /\ lastEdit' = [lastEdit EXCEPT ![p] = code]
               /\ last' = Did("updateCode", p, code, sent)
    /\ UNCHANGED <<now, mounts, rejoins, cfg, isViewOnly, isOwnerRef, chan,
                   wbVars, remoteWb, stats>>
    /\ UNCHANGED <<canvasVars, presenceVars, roomIdFromUrl, useRoomVars,
                   runnerVars>>

(* A language switch that keeps the code *)
languageSwitchKeepsCode(r, language) == [r EXCEPT !.language = language]

(* updateLanguage: the room it sets *)
languageSwitch(r, language) ==
    [r EXCEPT !.language = language, !.code = DefaultCode(language)]

(* updateLanguage *)
UpdateLanguage(p, language, quotaExceeded) ==
    /\ Rendered(p)
    /\ CanSend(p)
    /\ used.edits < cfg.edits
    /\ used' = [used EXCEPT !.edits = @ + 1]
    /\ IF ~editAllowed(p)
       THEN /\ last' = Did("updateLanguage", p, language, NoMsg)
            /\ UNCHANGED <<room, storage, inbox, bcast>>
       ELSE LET updatedRoom == languageSwitch(room[p], language)
                sent == IF chan[p] # Null
                        THEN LanguageUpdateMsg(p, updatedRoom.code, language)
                        ELSE NoMsg
            IN /\ room' = [room EXCEPT ![p] = updatedRoom]
               /\ storage' = [storage EXCEPT ![BrowserOf(p)] =
                                 saveToStorage(@, updatedRoom, quotaExceeded)]
               /\ inbox' = Broadcast(inbox, p, sent)
               /\ bcast' = [bcast EXCEPT ![p].switch =
                                IF sent # NoMsg THEN language ELSE @]
               /\ last' = Did("updateLanguage", p, language, sent)
    /\ UNCHANGED <<now, mounts, rejoins, cfg, isViewOnly, isOwnerRef, chan,
                   throttleVars, wbVars, remoteWb, stats, lastEdit>>
    /\ UNCHANGED <<canvasVars, presenceVars, roomIdFromUrl, useRoomVars,
                   runnerVars>>

(* The deferred callback: what it sends *)
deferredSend(p) ==
    IF pendingCode[p] # NoCode /\ chan[p] # Null
    THEN CodeUpdateMsg(p, pendingCode[p], syncTimer[p].language)
    ELSE NoMsg

(* The deferred send scheduled by broadcastCodeUpdate fires *)
TimerFire(p) ==
    /\ syncTimer[p] # Null
    /\ now >= syncTimer[p].due
    /\ CanSend(p)
    /\ syncTimer' = [syncTimer EXCEPT ![p] = Null]
    /\ LET sent == deferredSend(p)
       IN /\ IF sent # NoMsg
             THEN /\ lastSync' = [lastSync EXCEPT ![p] = now]
                  /\ pendingCode' = [pendingCode EXCEPT ![p] = NoCode]
             ELSE UNCHANGED <<lastSync, pendingCode>>
          /\ inbox' = Broadcast(inbox, p, sent)
          /\ bcast' = [bcast EXCEPT ![p] = Sent(@, sent)]
          /\ last' = Did("timer", p, Null, sent)
    /\ UNCHANGED <<now, storage, budgetVars, reactVars, chan, wbVars,
                   remoteWb, stats, lastEdit>>
    /\ UNCHANGED <<canvasVars, presenceVars, roomIdFromUrl, useRoomVars,
                   runnerVars>>

(* A broadcaster that notes the snapshot and the time before it looks for
   the channel *)
broadcastWhiteboardRecordsFirst(p, snapshot) ==
    IF now - lastWbSync[p] < WB_INTERVAL
    THEN /\ last' = Did("broadcastWhiteboard", p, snapshot, NoMsg)
         /\ UNCHANGED <<wbVars, inbox>>
    ELSE LET sent == IF chan[p] = Null THEN NoMsg
                     ELSE WhiteboardUpdateMsg(p, snapshot)
         IN /\ lastWbSync' = [lastWbSync EXCEPT ![p] = now]
            /\ wbRef' = [wbRef EXCEPT ![p] = snapshot]
            /\ inbox' = Broadcast(inbox, p, sent)
            /\ last' = Did("broadcastWhiteboard", p, snapshot, sent)

(* broadcastWhiteboard: nothing without a channel or within WB_INTERVAL of
   the last send, else record the snapshot and the time and send it *)
broadcastWhiteboard(p, snapshot) ==
    IF chan[p] = Null \/ now - lastWbSync[p] < WB_INTERVAL
    THEN /\ last' = Did("broadcastWhiteboard", p, snapshot, NoMsg)
         /\ UNCHANGED <<wbVars, inbox>>
    ELSE LET sent == WhiteboardUpdateMsg(p, snapshot)
         IN /\ lastWbSync' = [lastWbSync EXCEPT ![p] = now]
            /\ wbRef' = [wbRef EXCEPT ![p] = snapshot]
            /\ inbox' = Broadcast(inbox, p, sent)
            /\ last' = Did("broadcastWhiteboard", p, snapshot, sent)

(* broadcastWhiteboard, called by the canvas of a tab that is not read-only *)
BroadcastWhiteboard(p, snapshot) ==
    /\ Rendered(p)
    /\ ~isViewOnly[p]
    /\ CanSend(p)
    /\ used.draws < cfg.draws
    /\ used' = [used EXCEPT !.draws = @ + 1]
    /\ broadcastWhiteboard(p, snapshot)
    /\ UNCHANGED <<now, storage, mounts, rejoins, cfg, reactVars, chan,
                   throttleVars, remoteWb, ghostVars>>
    /\ UNCHANGED <<canvasVars, presenceVars, roomIdFromUrl, useRoomVars,
                   runnerVars>>

-----------------------------------------------------------------------------
(* Broadcast handlers *)

(* A code_update handler without the updatedBy check *)
applyCodeUpdateFromAnyone(p, payload) ==
    IF room[p] # Null
    THEN [room[p] EXCEPT !.code = payload.code, !.language = payload.language]
    ELSE room[p]

(* The code_update handler: the room it leaves *)
applyCodeUpdate(p, payload) ==
    IF payload.updatedBy # userId(p) /\ room[p] # Null
    THEN [room[p] EXCEPT !.code = payload.code, !.language = payload.language]
    ELSE room[p]

(* channel.on('broadcast', code_update) *)
OnCodeUpdate(p, i) ==
    /\ Deliverable(p, i, "code_update")
    /\ LET payload == inbox[p][i]
       IN /\ room' = [room EXCEPT ![p] = applyCodeUpdate(p, payload)]
          /\ stats' = [stats EXCEPT ![p].ts =
                          IF /\ applyCodeUpdate(p, payload) # room[p]
                             /\ "timestamp" \in DOMAIN payload
                             /\ payload.timestamp > @
                          THEN payload.timestamp ELSE @]
          /\ last' = Did("code_update", p, payload, NoMsg)
    /\ inbox' = [inbox EXCEPT ![p] = RemoveAt(@, i)]
    /\ UNCHANGED <<now, storage, budgetVars, isViewOnly, isOwnerRef, chan,
                   throttleVars, wbVars, remoteWb, bcast, lastEdit>>
    /\ UNCHANGED <<canvasVars, presenceVars, roomIdFromUrl, useRoomVars,
                   runnerVars>>

(* The request_state handler: what it replies *)
replyToRequest(p) ==
    LET currentRoom == getStoredRoom(storage[BrowserOf(p)], chan[p].topic)
    IN IF isOwnerRef[p] /\ currentRoom # Null
       THEN SyncStateMsg(currentRoom, wbRef[p])
       ELSE NoMsg

(* channel.on('broadcast', request_state) *)
OnRequestState(p, i) ==
    /\ Deliverable(p, i, "request_state")
    /\ CanSend(p)
    /\ LET payload == inbox[p][i]
           sent == replyToRequest(p)
       IN /\ inbox' = Broadcast([inbox EXCEPT ![p] = RemoveAt(@, i)], p, sent)
          /\ stats' = [q \in Peers |->
                          IF isOwnerRef[p] /\ Mounted(q)
                                /\ payload.userId = userId(q)
                          THEN [stats[q] EXCEPT !.served = TRUE]
                          ELSE stats[q]]
          /\ last' = Did("request_state", p, payload, sent)
    /\ UNCHANGED <<now, storage, budgetVars, reactVars, chan, throttleVars,
                   wbVars, remoteWb, bcast, lastEdit>>
    /\ UNCHANGED <<canvasVars, presenceVars, roomIdFromUrl, useRoomVars,
                   runnerVars>>

(* A sync_state handler that does not look at fromOwner *)
acceptsSyncIgnoringFlag(p, payload) == ~isOwnerRef[p]

(* The sync_state handler: does the peer apply the payload *)
acceptsSync(p, payload) == ~isOwnerRef[p] /\ payload.fromOwner

(* A sync_state handler that takes the code and keeps the language *)
applySyncStateCodeOnly(r, payload) ==
    IF r # Null THEN [r EXCEPT !.code = payload.code] ELSE r

(* The sync_state handler: the room it sets *)
applySyncState(r, payload) ==
    IF r # Null
    THEN [r EXCEPT !.code = payload.code, !.language = payload.language]
    ELSE r

(* channel.on('broadcast', sync_state) *)
OnSyncState(p, i) ==
    /\ Deliverable(p, i, "sync_state")
    /\ LET payload == inbox[p][i]
       IN /\ IF acceptsSync(p, payload)
             THEN /\ room' = [room EXCEPT ![p] = applySyncState(@, payload)]
                  /\ remoteWb' = IF payload.whiteboard # NoSnapshot
                                 THEN [remoteWb EXCEPT ![p] = payload.whiteboard]
                                 ELSE remoteWb
             ELSE UNCHANGED <<room, remoteWb>>
          /\ last' = Did("sync_state", p, payload, NoMsg)
    /\ inbox' = [inbox EXCEPT ![p] = RemoveAt(@, i)]
    /\ UNCHANGED <<now, storage, budgetVars, isViewOnly, isOwnerRef, chan,
                   throttleVars, wbVars, ghostVars>>
    /\ UNCHANGED <<canvasVars, presenceVars, roomIdFromUrl, useRoomVars,
                   runnerVars>>

(* The whiteboard_update handler: the remote snapshot it leaves *)
applyWhiteboardUpdate(p, payload) ==
    IF payload.updatedBy # userId(p) THEN payload.snapshot ELSE remoteWb[p]

(* channel.on('broadcast', whiteboard_update) *)
OnWhiteboardUpdate(p, i) ==
    /\ Deliverable(p, i, "whiteboard_update")
    /\ LET payload == inbox[p][i]
       IN /\ remoteWb' = [remoteWb EXCEPT ![p] = applyWhiteboardUpdate(p, payload)]
          /\ last' = Did("whiteboard_update", p, payload, NoMsg)
    /\ inbox' = [inbox EXCEPT ![p] = RemoveAt(@, i)]
    /\ UNCHANGED <<now, storage, budgetVars, reactVars, chan, throttleVars,
                   wbVars, ghostVars>>
    /\ UNCHANGED <<canvasVars, presenceVars, roomIdFromUrl, useRoomVars,
                   runnerVars>>

-----------------------------------------------------------------------------
(* Presence *)

(* Positions of the code editor's cursor *)
Position(line, column) == [lineNumber |-> line, column |-> column]

Positions == {Position(1, 1), Position(1, MaxColumn)}

(* editor.getSelection(): no selection, or a range between two positions *)
Selections ==
    {Null} \cup {[start |-> a, end |-> b] : a, b \in Positions}

(* Selection.isEmpty() *)
isEmpty(selection) == selection.start = selection.end

(* A callback that passes the selection on whenever there is one *)
onDidChangeCursorPositionAnySelection(position, selection) ==
    [cursor |-> position,
     selection |-> IF selection # Null THEN selection ELSE Undefined]

(* onDidChangeCursorPosition: the arguments it passes to onCursorChange *)
onDidChangeCursorPosition(position, selection) ==
    IF selection # Null /\ ~isEmpty(selection)
    THEN [cursor |-> position, selection |-> selection]
    ELSE [cursor |-> position, selection |-> Undefined]

(* The cursor moves in the code editor of a tab whose channel has joined:
   onDidChangeCursorPosition calls updateCursor, which returns without a
   channel and else publishes a new presence record through track. The
   step notes the record published before it *)
UpdateCursor(p, position, selection) ==
    /\ cfg.presence \/ cfg.early
    /\ Rendered(p)
    /\ chan[p] # Null => chan[p].status = "joined"
    /\ LET args == onDidChangeCursorPosition(position, selection)
       IN /\ tracked' = IF chan[p] = Null THEN tracked
                        ELSE [tracked EXCEPT ![p] =
                                 track(p, args.cursor, args.selection)]
          /\ last' = Did("updateCursor", p,
                         [position |-> position, selection |-> selection,
                          before |-> tracked[p]], NoMsg)
    /\ UNCHANGED <<now, storage, budgetVars, reactVars, chan, throttleVars,
                   wbVars, remoteWb, inbox, ghostVars>>
    /\ UNCHANGED <<canvasVars, remotePresence, connectedUsers, roomIdFromUrl,
                   useRoomVars,
                   runnerVars>>

(* The keys a presence directory can hold: the tabs' user ids and the id of
   one more client *)
PresenceKeys == {<<q, 1>> : q \in Peers \cup {"p3"}}

(* The lists of entries the directory can keep under a key: none, the record
   of a joining owner, or a record with a cursor and a selection followed
   by further ones, each as a client of this program publishes it *)
PresenceEntries(key) ==
    LET joined == PresencePayload(key, TRUE, Undefined, Undefined)
        moved == PresencePayload(key, FALSE, Position(1, 1),
                                 [start |-> Position(1, 1),
                                  end |-> Position(1, MaxColumn)])
    IN {<<>>} \cup {<<joined>>}
        \cup {<<moved>> \o [i \in 1..n |-> joined] : n \in 1..MaxEntries - 1}

(* channel.presenceState(): the entries kept under each key *)
PresenceStates ==
    UNION {{state \in [keys -> UNION {PresenceEntries(k) : k \in keys}] :
               \A k \in keys : state[k] \in PresenceEntries(k)} :
           keys \in SUBSET PresenceKeys}

(* Object.entries(state): the keys in some fixed order *)
RECURSIVE Entries(_)
Entries(keys) ==
    IF keys = {} THEN <<>>
    ELSE LET key == CHOOSE k \in keys : TRUE
         IN <<key>> \o Entries(keys \ {key})

(* The record the handler pushes for presences[0] *)
UserPresence(presence) ==
    [id |-> presence.user_id,
     cursor |-> IF "cursor" \in DOMAIN presence THEN presence.cursor
                ELSE Undefined,
     selection |-> IF "selection" \in DOMAIN presence THEN presence.selection
                   ELSE Undefined,
     isOwner |-> presence.is_owner]

(* A handler that also lists the tab's own key *)
presenceUsersWithSelf(p, state) ==
    LET keys == SelectSeq(Entries(DOMAIN state), LAMBDA key : Len(state[key]) > 0)
    IN [i \in 1..Len(keys) |-> UserPresence(state[keys[i]][1])]

(* The presence sync handler's users: one record for each key other than
   the tab's own id that has an entry, from its first entry *)
presenceUsers(p, state) ==
    LET keys == SelectSeq(Entries(DOMAIN state),
                          LAMBDA key : key # userId(p) /\ Len(state[key]) > 0)
    IN [i \in 1..Len(keys) |-> UserPresence(state[keys[i]][1])]

(* A count of the users listed, plus the tab itself *)
presenceCountOfUsers(p, state) == Len(presenceUsers(p, state)) + 1

(* Object.keys(state).length *)
presenceCount(p, state) == Cardinality(DOMAIN state)

(* channel.on('presence', { event: 'sync' }): replace remotePresence and
   connectedUsers by what the directory snapshot gives *)
PresenceSync(p, state) ==
    /\ cfg.presence
    /\ chan[p] # Null
    /\ chan[p].status # "joining"
    /\ remotePresence' = [remotePresence EXCEPT ![p] = presenceUsers(p, state)]
    /\ connectedUsers' = [connectedUsers EXCEPT ![p] = presenceCount(p, state)]
    /\ last' = Did("presenceSync", p, state, NoMsg)
    /\ UNCHANGED <<now, storage, budgetVars, reactVars, chan, throttleVars,
                   wbVars, remoteWb, inbox, ghostVars>>
    /\ UNCHANGED <<canvasVars, tracked, roomIdFromUrl, useRoomVars,
                   runnerVars>>

(* The presence scenario follows one tab; the other clients of the channel
   show in the directory snapshots *)
NextPresence ==
    \/ \E q \in QuotaOutcomes : MountNew(Drawer, q)
    \/ \E roomId \in RoomIds : Mount(Drawer, roomId)
    \/ Unmount(Drawer)
    \/ SubscribeConfirm(Drawer)
    \/ TrackResolved(Drawer)
    \/ \E position \in Positions, selection \in Selections :
            UpdateCursor(Drawer, position, selection)
    \/ \E state \in PresenceStates : PresenceSync(Drawer, state)

SpecPresence == InitIn({PresenceScenario}) /\ [][NextPresence]_vars

-----------------------------------------------------------------------------
(* Environment *)

TimerWaiting ==
    \/ \E p \in Peers : syncTimer[p] # Null /\ now < syncTimer[p].due
    \/ timeoutId # Null /\ now < timeoutId.due

(* Date.now() advances *)
Tick ==
    /\ cfg.ticks > 0
    /\ now < StartTime + cfg.ticks * TickMs \/ TimerWaiting
    /\ now' = now + TickMs
    /\ last' = Did("tick", "none", Null, NoMsg)
    /\ UNCHANGED <<storage, budgetVars, reactVars, chan, throttleVars, wbVars,
                   remoteWb, inbox, ghostVars>>
    /\ UNCHANGED <<canvasVars, presenceVars, roomIdFromUrl, useRoomVars,
                   runnerVars>>

(* The best-effort channel loses a broadcast *)
Drop(p, i) ==
    /\ cfg.lossy
    /\ i \in 1..Len(inbox[p])
    /\ inbox' = [inbox EXCEPT ![p] = RemoveAt(@, i)]
    /\ last' = Did("drop", p, Null, NoMsg)
    /\ UNCHANGED <<now, storage, budgetVars, reactVars, chan, throttleVars,
                   wbVars, remoteWb, ghostVars>>
    /\ UNCHANGED <<canvasVars, presenceVars, roomIdFromUrl, useRoomVars,
                   runnerVars>>

(* A client that is not this hook publishes a sync_state without the
   fromOwner flag on the room's channel *)
ForeignSyncState(p, code, language, whiteboard) ==
    /\ cfg.foreign
    /\ used.foreign < MaxForeign
    /\ chan[p] # Null /\ Listening(p, chan[p].topic)
    /\ Len(inbox[p]) < MaxInbox
    /\ used' = [used EXCEPT !.foreign = @ + 1]
    /\ inbox' = [inbox EXCEPT ![p] = Append(@,
            [event |-> "sync_state", code |-> code, language |-> language,
             whiteboard |-> whiteboard, fromOwner |-> FALSE])]
    /\ last' = Did("foreign", "none", Null, NoMsg)
    /\ UNCHANGED <<now, storage, mounts, rejoins, cfg, reactVars, chan,
                   throttleVars, wbVars, remoteWb, ghostVars>>
    /\ UNCHANGED <<canvasVars, presenceVars, roomIdFromUrl, useRoomVars,
                   runnerVars>>

(* The stored JSON of a browser becomes unparseable *)
CorruptStorage(b) ==
    /\ cfg.faults
    /\ storage[b] # Corrupt
    /\ storage' = [storage EXCEPT ![b] = Corrupt]
    /\ last' = Did("corrupt", b, Null, NoMsg)
    /\ UNCHANGED <<now, budgetVars, reactVars, chan, throttleVars, wbVars,
                   remoteWb, inbox, ghostVars>>
    /\ UNCHANGED <<canvasVars, presenceVars, roomIdFromUrl, useRoomVars,
                   runnerVars>>

-----------------------------------------------------------------------------
(* The whiteboard canvas: diff-based application of remote snapshots *)

IdIndex(id) == CHOOSE i \in 1..Len(ShapeIdSeq) : ShapeIdSeq[i] = id

(* The snapshots a peer can receive: shape arrays of bounded length, with
   unique ids listed in ascending order, or a full array listed in
   descending order, or else two different shapes of one id *)
RemoteSnapshots ==
    {s \in UNION {[1..n -> Shapes] : n \in 0..MaxShapes} :
        \/ \A i \in 1..Len(s) - 1 : IdIndex(s[i].id) < IdIndex(s[i + 1].id)
        \/ /\ Len(s) = MaxShapes
           /\ \A i \in 1..Len(s) - 1 : IdIndex(s[i].id) > IdIndex(s[i + 1].id)
        \/ Len(s) = 2 /\ s[1].id = s[2].id /\ s[1].v # s[2].v}

RECURSIVE SortedShapes(_)
SortedShapes(set) ==
    IF set = {} THEN <<>>
    ELSE LET first == CHOOSE x \in set :
                        \A y \in set : IdIndex(x.id) <= IdIndex(y.id)
         IN <<first>> \o SortedShapes(set \ {first})

(* editor.getCurrentPageShapes() *)
getCurrentPageShapes(ed) == SortedShapes(ed)

(* JSON.stringify of a shape *)
StringifyShape(shape) == <<"id", shape.id, "v", shape.v>>

(* JSON.stringify of a snapshot *)
StringifySnapshot(snapshot) ==
    <<"shapes", [i \in 1..Len(snapshot) |-> StringifyShape(snapshot[i])]>>

(* new Map(shapes.map(s => [s.id, s])).has(id) *)
MapHas(shapes, id) == \E i \in 1..Len(shapes) : shapes[i].id = id

(* new Map(shapes.map(s => [s.id, s])).get(id): the last entry wins *)
MapGet(shapes, id) ==
    shapes[CHOOSE i \in 1..Len(shapes) :
              /\ shapes[i].id = id
              /\ \A j \in i + 1..Len(shapes) : shapes[j].id # id]

(* A diff that creates every incoming shape *)
toCreateAll(currentShapes, nextShapes) == nextShapes

(* A diff that marks every shape present on both sides as changed *)
toUpdateAlways(currentShapes, nextShapes) ==
    LET InBoth(next) == MapHas(currentShapes, next.id)
    IN SelectSeq(nextShapes, InBoth)

toDelete(currentShapes, nextShapes) ==
    LET Gone(cur) == ~MapHas(nextShapes, cur.id)
    IN SelectSeq(currentShapes, Gone)

toCreate(currentShapes, nextShapes) ==
    LET New(next) == ~MapHas(currentShapes, next.id)
    IN SelectSeq(nextShapes, New)

toUpdate(currentShapes, nextShapes) ==
    LET Changed(next) ==
            /\ MapHas(currentShapes, next.id)
            /\ StringifyShape(MapGet(currentShapes, next.id))
                 # StringifyShape(next)
    IN SelectSeq(nextShapes, Changed)

IdsOf(shapes) == {shapes[i].id : i \in 1..Len(shapes)}

(* editor.deleteShapes *)
deleteShapes(ed, shapes) == {s \in ed : s.id \notin IdsOf(shapes)}

(* The store keeps one record per id: a later record replaces an earlier *)
RECURSIVE putShapes(_, _)
putShapes(ed, shapes) ==
    IF shapes = <<>> THEN ed
    ELSE putShapes({s \in ed : s.id # Head(shapes).id} \cup {Head(shapes)},
                   Tail(shapes))

(* editor.createShapes *)
createShapes(ed, shapes) == putShapes(ed, shapes)

(* editor.updateShapes *)
updateShapes(ed, shapes) == putShapes(ed, shapes)

(* An apply that never deletes *)
applySnapshotToEditorKeepsGone(ed, snapshot) ==
    LET currentShapes == getCurrentPageShapes(ed)
    IN updateShapes(
          createShapes(ed, toCreate(currentShapes, snapshot)),
          toUpdate(currentShapes, snapshot))

(* applySnapshotToEditor: the shapes it leaves on the page *)
applySnapshotToEditor(ed, snapshot) ==
    LET currentShapes == getCurrentPageShapes(ed)
    IN updateShapes(
          createShapes(
             deleteShapes(ed, toDelete(currentShapes, snapshot)),
             toCreate(currentShapes, snapshot)),
          toUpdate(currentShapes, snapshot))

(* The editor call that throws during an apply, if any *)
Throws == {"none", "deleteShapes", "createShapes", "updateShapes"}

(* The shapes on the page when the apply has returned: all three calls have
   run, or the call that threw and those after it have not; an editor that
   batches the calls in a transaction undoes the calls made before the throw *)
applyOutcome(ed, snapshot, threw, atomic) ==
    LET currentShapes == getCurrentPageShapes(ed)
        deleted == deleteShapes(ed, toDelete(currentShapes, snapshot))
        created == createShapes(deleted, toCreate(currentShapes, snapshot))
    IN CASE threw = "none" -> applySnapshotToEditor(ed, snapshot)
         [] atomic -> ed
         [] threw = "deleteShapes" -> ed
         [] threw = "createShapes" -> deleted
         [] threw = "updateShapes" -> created

(* A call is made only for a non-empty list, so only such a call can throw *)
CanThrow(ed, snapshot, threw) ==
    LET currentShapes == getCurrentPageShapes(ed)
    IN CASE threw = "none" -> TRUE
         [] threw = "deleteShapes" -> toDelete(currentShapes, snapshot) # <<>>
         [] threw = "createShapes" -> toCreate(currentShapes, snapshot) # <<>>
         [] threw = "updateShapes" -> toUpdate(currentShapes, snapshot) # <<>>

(* An apply that clears the flag at the end of the try block only *)
flagAfterApplyWithoutFinally(threw) == threw # "none"

(* isApplyingRemote.current when applySnapshotToEditor has returned: the
   finally block clears it whether or not a call threw *)
flagAfterApply(threw) == FALSE

AppliedCount == IF applied = Null THEN 0 ELSE applied.n

(* The number of remote snapshots a scenario delivers *)
RemoteBudget ==
    CASE cfg.board -> BoardRemote
      [] cfg.throws -> ThrowRemote
      [] OTHER -> MaxRemote

(* The isReadOnly prop of the canvas: the page passes isViewOnly *)
isReadOnly == IF cfg.board THEN isViewOnly[Drawer] ELSE cfg.readOnly

(* The page renders the canvas while the hook has a room *)
CanvasMounted == cfg.board => Mounted(Drawer)

(* The snapshot object { shapes } the canvas hands to onSnapshot *)
WhiteboardSnapshot(shapes) == <<"shapes", shapes>>

(* A listener that waits half as long *)
handleChangeHalfWait(applying) ==
    IF applying THEN timeoutId ELSE [due |-> now + DEBOUNCE \div 2]

(* handleChange: return while a remote snapshot is being applied, else
   restart the debounce timer *)
handleChange(applying) ==
    IF applying THEN timeoutId ELSE [due |-> now + DEBOUNCE]

(* The effect on remoteSnapshot: skip a snapshot equal to lastSnapshotRef,
   else record it and apply it. The store delivers the changes of the apply
   to the listener of an editable canvas either within the mutating call,
   while isApplyingRemote is set, or after the apply has returned. The record
   of the run notes whether the snapshot is the one of the previous run, met
   with the shapes as that run left them, and whether every snapshot so far
   had unique shape ids *)
RemoteSnapshotEffectThrowing(snapshot, deferred, threw, atomic) ==
    /\ CanvasMounted
    /\ AppliedCount < RemoteBudget
    /\ LET remoteStr == StringifySnapshot(snapshot)
           currentShapes == getCurrentPageShapes(editor)
           again == IF applied = Null THEN FALSE
                    ELSE applied.next = snapshot /\ applied.result = editor
           unique == /\ \A i, j \in 1..Len(snapshot) :
                            snapshot[i].id = snapshot[j].id => i = j
                     /\ (applied = Null \/ applied.unique)
           run == [n |-> AppliedCount + 1, again |-> again, unique |-> unique,
                   cur |-> currentShapes, next |-> snapshot,
                   drawn |-> IF cfg.throws THEN drawn ELSE 0]
           result == applyOutcome(editor, snapshot, threw, atomic)
           heard == ~isReadOnly /\ result # editor
       IN IF remoteStr = lastSnapshotRef
          THEN /\ ~deferred
               /\ threw = "none" /\ ~atomic
               /\ applied' = run @@ [skipped |-> TRUE, toDelete |-> <<>>,
                                     toCreate |-> <<>>, toUpdate |-> <<>>,
                                     result |-> editor, threw |-> "none"]
               /\ UNCHANGED <<editor, lastSnapshotRef, timeoutId,
                              pendingHistory, isApplyingRemote>>
          ELSE /\ deferred => heard
               /\ CanThrow(editor, snapshot, threw)
               /\ atomic => threw # "none"
               /\ lastSnapshotRef' = remoteStr
               /\ editor' = result
               /\ timeoutId' = IF heard /\ ~deferred
                               THEN handleChange(TRUE) ELSE timeoutId
               /\ pendingHistory' = (pendingHistory \/ deferred)
               /\ isApplyingRemote' = flagAfterApply(threw)
               /\ applied' = run @@
                     [skipped |-> FALSE,
                      toDelete |-> toDelete(currentShapes, snapshot),
                      toCreate |-> toCreate(currentShapes, snapshot),
                      toUpdate |-> toUpdate(currentShapes, snapshot),
                      result |-> result, threw |-> threw]
    /\ UNCHANGED <<drawn, onSnapshot, drawnAt, roomVars>>

(* The effect when no editor call throws *)
RemoteSnapshotEffect(snapshot, deferred) ==
    RemoteSnapshotEffectThrowing(snapshot, deferred, "none", FALSE)

(* The store delivers the changes of a finished apply to the listener *)
StoreFlush ==
    /\ pendingHistory
    /\ pendingHistory' = FALSE
    /\ timeoutId' = handleChange(isApplyingRemote)
    /\ UNCHANGED <<editor, lastSnapshotRef, drawn, applied, onSnapshot,
                   drawnAt, isApplyingRemote, roomVars>>

(* The user draws, changes or erases one shape on an editable canvas; the
   store listener's handleChange restarts the debounce timer *)
LocalChange(shape, erase) ==
    /\ CanvasMounted
    /\ ~isReadOnly
    /\ drawn < cfg.draws
    /\ drawn' = drawn + 1
    /\ drawnAt' = now
    /\ editor' = IF erase THEN deleteShapes(editor, <<shape>>)
                 ELSE putShapes(editor, <<shape>>)
    /\ editor' # editor
    /\ timeoutId' = handleChange(isApplyingRemote)
    /\ pendingHistory' = FALSE
    /\ UNCHANGED <<lastSnapshotRef, applied, onSnapshot, isApplyingRemote,
                   roomVars>>

(* getSnapshotFromEditor *)
getSnapshotFromEditor(ed) == getCurrentPageShapes(ed)

(* setTimeout(..., 100): when the callback may run; a scenario without a
   clock lets the delay pass unobserved *)
DebounceDue == cfg.ticks = 0 \/ now >= timeoutId.due

(* A debounce callback that hands every snapshot over *)
emitsAlways(snapshotStr) == TRUE

(* The debounce callback hands the snapshot over only if its serialization
   differs from lastSnapshotRef *)
emits(snapshotStr) == snapshotStr # lastSnapshotRef

(* The debounce callback of handleChange *)
DebounceFire ==
    /\ timeoutId # Null
    /\ DebounceDue
    /\ timeoutId' = Null
    /\ LET snapshot == getSnapshotFromEditor(editor)
           snapshotStr == StringifySnapshot(snapshot)
       IN IF emits(snapshotStr)
          THEN /\ lastSnapshotRef' = snapshotStr
               /\ onSnapshot' = Append(onSnapshot, snapshot)
               /\ IF cfg.board
                  THEN broadcastWhiteboard(Drawer, WhiteboardSnapshot(snapshot))
                  ELSE UNCHANGED <<wbVars, inbox, last>>
          ELSE UNCHANGED <<lastSnapshotRef, onSnapshot, wbVars, inbox, last>>
    /\ UNCHANGED <<editor, drawn, applied, pendingHistory, drawnAt,
                   isApplyingRemote>>
    /\ UNCHANGED <<now, storage, budgetVars, reactVars, chan, throttleVars,
                   remoteWb, ghostVars, presenceVars, roomIdFromUrl,
                   useRoomVars,
                   runnerVars>>

NextCanvas ==
    \/ /\ AppliedCount < RemoteBudget
       /\ \E snapshot \in RemoteSnapshots, deferred \in BOOLEAN :
               RemoteSnapshotEffect(snapshot, deferred)
    \/ \E shape \in LocalShapes, erase \in BOOLEAN : LocalChange(shape, erase)
    \/ StoreFlush
    \/ DebounceFire

SpecCanvas ==
    InitIn({CanvasScenario, ReadOnlyCanvasScenario}) /\ [][NextCanvas]_vars

(* A replacing effect that clears the flag at the end of the try block *)
flagAfterLoadWithoutFinally(threw) == threw

(* isApplyingRemote.current when the replacing effect has returned: set
   before the try block, cleared in its finally block *)
flagAfterLoad(threw) == FALSE

(* throttledHandler of the replacing canvas: start the timer unless one is
   running *)
throttledHandler ==
    IF timeoutId # Null THEN timeoutId ELSE [due |-> now + THROTTLE]

(* The effect on remoteSnapshot of the replacing canvas: skip a document
   equal to lastSnapshotRef, else loadSnapshot; lastSnapshotRef is recorded
   only if loadSnapshot returned. Whether the store reports the load to a
   listener of source 'user' is the library's choice *)
RemoteSnapshotLoad(snapshot, threw, heard) ==
    /\ cfg.replace
    /\ AppliedCount < RemoteBudget
    /\ LET remoteStr == StringifySnapshot(snapshot)
           run == [n |-> AppliedCount + 1, again |-> FALSE,
                   unique |-> \A i, j \in 1..Len(snapshot) :
                                 snapshot[i].id = snapshot[j].id => i = j,
                   cur |-> getCurrentPageShapes(editor), next |-> snapshot,
                   drawn |-> drawn, toDelete |-> <<>>, toCreate |-> <<>>,
                   toUpdate |-> <<>>]
       IN IF remoteStr = lastSnapshotRef
          THEN /\ ~threw /\ ~heard
               /\ applied' = run @@ [skipped |-> TRUE, result |-> editor,
                                     threw |-> "none"]
               /\ UNCHANGED <<editor, lastSnapshotRef, timeoutId,
                              isApplyingRemote>>
          ELSE /\ editor' = IF threw THEN editor ELSE putShapes({}, snapshot)
               /\ heard => (~threw /\ editor' # editor)
               /\ lastSnapshotRef' = IF threw THEN lastSnapshotRef
                                     ELSE remoteStr
               /\ timeoutId' = IF heard THEN throttledHandler ELSE timeoutId
               /\ isApplyingRemote' = flagAfterLoad(threw)
               /\ applied' = run @@
                     [skipped |-> FALSE, result |-> editor',
                      threw |-> IF threw THEN "loadSnapshot" ELSE "none"]
    /\ UNCHANGED <<drawn, onSnapshot, drawnAt, pendingHistory, roomVars>>

(* The user changes one shape on the replacing canvas *)
LocalChangeThrottled(shape, erase) ==
    /\ cfg.replace
    /\ ~isReadOnly
    /\ drawn < cfg.draws
    /\ drawn' = drawn + 1
    /\ drawnAt' = now
    /\ editor' = IF erase THEN deleteShapes(editor, <<shape>>)
                 ELSE putShapes(editor, <<shape>>)
    /\ editor' # editor
    /\ timeoutId' = throttledHandler
    /\ UNCHANGED <<lastSnapshotRef, applied, onSnapshot, pendingHistory,
                   isApplyingRemote, roomVars>>

(* The throttle timer runs handleStoreChange: return while a remote
   document is being applied, else hand the document over if it differs
   from lastSnapshotRef *)
handleStoreChange ==
    /\ cfg.replace
    /\ timeoutId # Null
    /\ DebounceDue
    /\ timeoutId' = Null
    /\ LET snapshot == getSnapshotFromEditor(editor)
           snapshotStr == StringifySnapshot(snapshot)
       IN IF ~isApplyingRemote /\ snapshotStr # lastSnapshotRef
          THEN /\ lastSnapshotRef' = snapshotStr
               /\ onSnapshot' = Append(onSnapshot, snapshot)
          ELSE UNCHANGED <<lastSnapshotRef, onSnapshot>>
    /\ UNCHANGED <<editor, drawn, applied, pendingHistory, drawnAt,
                   isApplyingRemote, roomVars>>

(* The canvas when an editor call of an apply can throw *)
NextThrowing ==
    \/ /\ ~cfg.replace
       /\ AppliedCount < RemoteBudget
       /\ \E snapshot \in RemoteSnapshots, deferred \in BOOLEAN,
             threw \in Throws, atomic \in BOOLEAN :
               RemoteSnapshotEffectThrowing(snapshot, deferred, threw, atomic)
    \/ \E shape \in LocalShapes, erase \in BOOLEAN :
            ~cfg.replace /\ LocalChange(shape, erase)
    \/ ~cfg.replace /\ StoreFlush
    \/ ~cfg.replace /\ DebounceFire
    \/ /\ cfg.replace
       /\ AppliedCount < RemoteBudget
       /\ \E snapshot \in RemoteSnapshots, threw \in BOOLEAN,
             heard \in BOOLEAN :
               RemoteSnapshotLoad(snapshot, threw, heard)
    \/ \E shape \in LocalShapes, erase \in BOOLEAN :
            LocalChangeThrottled(shape, erase)
    \/ handleStoreChange

SpecThrowing ==
    InitIn({ThrowingCanvasScenario, ReplaceCanvasScenario})
        /\ [][NextThrowing]_vars

(* The canvas of one tab wired to its hook as the page wires it, with a
   clock: onSnapshot is broadcastWhiteboard and isReadOnly is isViewOnly *)
BoardSnapshots ==
    {snapshot \in RemoteSnapshots :
        /\ Len(snapshot) <= 1
        /\ \A i \in 1..Len(snapshot) : snapshot[i].v = 1}

NextBoard ==
    \/ \E q \in QuotaOutcomes : MountNew(Drawer, q)
    \/ Unmount(Drawer)
    \/ SubscribeConfirm(Drawer)
    \/ TrackResolved(Drawer)
    \/ \E snapshot \in BoardSnapshots, deferred \in BOOLEAN :
            RemoteSnapshotEffect(snapshot, deferred)
    \/ \E shape \in LocalShapes, erase \in BOOLEAN : LocalChange(shape, erase)
    \/ StoreFlush
    \/ DebounceFire
    \/ Tick

SpecBoard == InitIn({BoardScenario}) /\ [][NextBoard]_vars

(* The host calls the functions the hook returns at any time after the
   first render, also before the mount effect has made a channel *)
NextEarly ==
    \/ \E q \in QuotaOutcomes : MountNew(Drawer, q)
    \/ SubscribeConfirm(Drawer)
    \/ TrackResolved(Drawer)
    \/ \E c \in EditCodes, q \in QuotaOutcomes : UpdateCode(Drawer, c, q)
    \/ \E l \in Languages, q \in QuotaOutcomes : UpdateLanguage(Drawer, l, q)
    \/ TimerFire(Drawer)
    \/ \E s \in Snapshots : BroadcastWhiteboard(Drawer, s)
    \/ \E position \in Positions, selection \in Selections :
            UpdateCursor(Drawer, position, selection)
    \/ Tick

SpecEarly == InitIn({EarlyScenario}) /\ [][NextEarly]_vars

(* The page of one tab with a roomId that changes while the hook stays
   mounted, with a clock *)
NextSwitch ==
    \/ \E q \in QuotaOutcomes : MountNew(Drawer, q)
    \/ \E roomId \in RoomIds : Mount(Drawer, roomId)
    \/ Unmount(Drawer)
    \/ \E target \in RoomIds \cup {NoRoomId}, q \in QuotaOutcomes :
            ChangeRoom(Drawer, target, q)
    \/ SubscribeConfirm(Drawer)
    \/ TrackResolved(Drawer)
    \/ \E c \in EditCodes, q \in QuotaOutcomes : UpdateCode(Drawer, c, q)
    \/ TimerFire(Drawer)
    \/ \E shape \in LocalShapes, erase \in BOOLEAN : LocalChange(shape, erase)
    \/ DebounceFire
    \/ Tick

SpecSwitch == InitIn({SwitchScenario}) /\ [][NextSwitch]_vars

(* Two tabs whose roomId can change while their hooks stay mounted *)
NextResubscribe ==
    \/ \E q \in QuotaOutcomes : MountNew(Drawer, q)
    \/ \E p \in Peers, roomId \in RoomIds : Mount(p, roomId)
    \/ \E p \in Peers : Unmount(p)
    \/ \E p \in Peers, target \in RoomIds \cup {NoRoomId}, q \in QuotaOutcomes :
            ChangeRoom(p, target, q)
    \/ \E p \in Peers : SubscribeConfirm(p)
    \/ \E p \in Peers : TrackResolved(p)
    \/ \E p \in Peers, c \in EditCodes, q \in QuotaOutcomes : UpdateCode(p, c, q)
    \/ \E p \in Peers, i \in 1..MaxInbox : OnCodeUpdate(p, i)
    \/ \E p \in Peers, i \in 1..MaxInbox : OnRequestState(p, i)
    \/ \E p \in Peers, i \in 1..MaxInbox : OnSyncState(p, i)

SpecResubscribe == InitIn({ResubscribeScenario}) /\ [][NextResubscribe]_vars

-----------------------------------------------------------------------------
(* hooks/useRoom.ts: the room hook without realtime transport. It keeps the
   same localStorage key; its state is useRoom[p] *)

(* getStoredRooms: the parsed map, or the empty map when reading or parsing
   throws *)
getStoredRooms(st) ==
    IF st = Corrupt THEN [id \in RoomIds |-> Null] ELSE st

(* saveRoom: read the map, set the record, write the map. setItem is not
   inside a try block: the value it leaves in the cache and the error it
   lets escape *)
saveRoom(st, roomData, quotaExceeded) ==
    LET rooms == [getStoredRooms(st) EXCEPT ![roomData.id] = roomData]
    IN IF quotaExceeded
       THEN [storage |-> st, error |-> QuotaExceededError]
       ELSE [storage |-> rooms, error |-> NoError]

(* joinRoom: the room state for a session id *)
joinRoom(st, id) ==
    LET storedRoom == getStoredRooms(st)[id]
    IN IF storedRoom # Null
       THEN [room |-> [id |-> storedRoom.id, code |-> storedRoom.code,
                       language |-> storedRoom.language,
                       isOwner |-> storedRoom.isOwner],
             isViewOnly |-> ~storedRoom.isOwner]
       ELSE [room |-> [id |-> id, code |-> LoadingPlaceholder,
                       language |-> "javascript", isOwner |-> FALSE],
             isViewOnly |-> TRUE]

Escaped(p, op, error) ==
    IF error = NoError THEN uncaught
    ELSE [uncaught EXCEPT ![p] = @ \cup {[from |-> op, error |-> error]}]

UseRoomUnchanged ==
    UNCHANGED <<now, mounts, rejoins, cfg, reactVars, chan, throttleVars,
                wbVars, remoteWb, inbox, ghostVars, presenceVars,
                roomIdFromUrl, canvasVars, runnerVars>>

(* createRoom of useRoom.ts: saveRoom runs before setRoom, so an error of
   saveRoom leaves the state as it was *)
UseRoomCreate(p, op, language, quotaExceeded, loadingAfter) ==
    /\ used.rooms < cfg.rooms
    /\ used' = [used EXCEPT !.rooms = @ + 1]
    /\ LET newRoom == createRoom(RoomSeq[used.rooms + 1], language)
           saved == saveRoom(storage[BrowserOf(p)], newRoom, quotaExceeded)
       IN /\ storage' = [storage EXCEPT ![BrowserOf(p)] = saved.storage]
          /\ uncaught' = Escaped(p, op, saved.error)
          /\ useRoom' = [useRoom EXCEPT ![p] =
                IF saved.error # NoError
                THEN [@ EXCEPT !.mounted = TRUE]
                ELSE [room |-> newRoom, isViewOnly |-> FALSE,
                      loading |-> loadingAfter, mounted |-> TRUE]]
          /\ last' = Did(op, p, [quotaExceeded |-> quotaExceeded,
                                 roomId |-> NoRoomId,
                                 before |-> storage[BrowserOf(p)]], NoMsg)

(* The mount effect: setLoading(true), joinRoom(roomId) or createRoom(),
   setLoading(false) *)
UseRoomMount(p, roomId, quotaExceeded) ==
    /\ ~useRoom[p].mounted
    /\ IF roomId # NoRoomId
       THEN /\ Joinable(roomId)
            /\ ~quotaExceeded
            /\ LET joined == joinRoom(storage[BrowserOf(p)], roomId)
               IN useRoom' = [useRoom EXCEPT ![p] =
                     [room |-> joined.room, isViewOnly |-> joined.isViewOnly,
                      loading |-> FALSE, mounted |-> TRUE]]
            /\ last' = Did("useRoom.mount", p,
                           [quotaExceeded |-> FALSE, roomId |-> roomId,
                            before |-> storage[BrowserOf(p)]], NoMsg)
            /\ UNCHANGED <<storage, used, uncaught>>
       ELSE UseRoomCreate(p, "useRoom.mount", "javascript", quotaExceeded,
                          FALSE)
    /\ UseRoomUnchanged

(* createRoom called by the host *)
UseRoomCreateRoom(p, language, quotaExceeded) ==
    /\ useRoom[p].mounted
    /\ UseRoomCreate(p, "useRoom.createRoom", language, quotaExceeded,
                     useRoom[p].loading)
    /\ UseRoomUnchanged

(* updateCode and updateLanguage of useRoom.ts: setRoom, then saveRoom *)
UseRoomUpdate(p, op, updatedRoom, quotaExceeded) ==
    /\ useRoom[p].mounted
    /\ useRoom[p].room # Null
    /\ ~useRoom[p].isViewOnly
    /\ used.edits < cfg.edits
    /\ used' = [used EXCEPT !.edits = @ + 1]
    /\ LET saved == saveRoom(storage[BrowserOf(p)], updatedRoom, quotaExceeded)
       IN /\ useRoom' = [useRoom EXCEPT ![p].room = updatedRoom]
          /\ storage' = [storage EXCEPT ![BrowserOf(p)] = saved.storage]
          /\ uncaught' = Escaped(p, op, saved.error)
    /\ last' = Did(op, p, [quotaExceeded |-> quotaExceeded,
                           roomId |-> NoRoomId,
                           before |-> storage[BrowserOf(p)]], NoMsg)
    /\ UseRoomUnchanged

UseRoomUpdateCode(p, code, quotaExceeded) ==
    /\ useRoom[p].room # Null
    /\ UseRoomUpdate(p, "useRoom.updateCode",
                     [useRoom[p].room EXCEPT !.code = code], quotaExceeded)

UseRoomUpdateLanguage(p, language, quotaExceeded) ==
    /\ useRoom[p].room # Null
    /\ UseRoomUpdate(p, "useRoom.updateLanguage",
                     languageSwitch(useRoom[p].room, language), quotaExceeded)

(* The page is reloaded: the hook instance and its state are gone *)
UseRoomReload(p) ==
    /\ useRoom[p].mounted
    /\ mounts[p] < cfg.mounts
    /\ mounts' = [mounts EXCEPT ![p] = @ + 1]
    /\ useRoom' = [useRoom EXCEPT ![p] = InitialState]
    /\ last' = Did("useRoom.reload", p, Null, NoMsg)
    /\ UNCHANGED <<now, storage, used, rejoins, cfg, reactVars, chan,
                   throttleVars, wbVars, remoteWb, inbox, ghostVars,
                   presenceVars, roomIdFromUrl, canvasVars, uncaught,
                   runnerVars>>

NextUseRoom ==
    \/ \E roomId \in RoomIds \cup {NoRoomId}, q \in QuotaOutcomes :
            UseRoomMount(Drawer, roomId, q)
    \/ \E l \in Languages, q \in QuotaOutcomes : UseRoomCreateRoom(Drawer, l, q)
    \/ \E c \in EditCodes, q \in QuotaOutcomes : UseRoomUpdateCode(Drawer, c, q)
    \/ \E l \in Languages, q \in QuotaOutcomes :
            UseRoomUpdateLanguage(Drawer, l, q)
    \/ UseRoomReload(Drawer)
    \/ CorruptStorage(Drawer)

SpecUseRoom == InitIn({UseRoomScenario}) /\ [][NextUseRoom]_vars

-----------------------------------------------------------------------------
(* hooks/useCodeRunner.ts. The page calls runCode from the Run button; the
   hook itself does not refuse a call while another one is awaiting *)

RunnerScenario == Scenario(0, 0, 0, 1, 0, FALSE, FALSE, FALSE)

(* room.language as the page passes it: the four languages of the type and
   any other string *)
RunLanguages == {"javascript", "python", "cpp", "java", "other"}

(* What the user's JavaScript does before fn() returns: what it prints to
   the console, and whether it returns undefined, a value or a Promise, or
   throws *)
JsPrograms ==
    [prints : {"none", "log", "warn", "error"},
     ends : {"returns", "value", "promise"}, thrown : {NotThrown}]
    \cup [prints : {"none", "error"}, ends : {"throws"}, thrown : Thrown]

NoProgram == [prints |-> "none", ends |-> "returns", thrown |-> NotThrown]

(* How the awaited Promise of the user's JavaScript settles *)
JsSettles == {NotThrown} \cup Thrown

(* How the Python runtime answers: lines on stdout, lines on stderr, nothing,
   an error of the user's code, the runtime's script failing to load, or
   window.loadPyodide rejecting *)
PythonOutcomes ==
    {"stdout", "stderr", "silent", "raises", "scriptFails", "loadFails"}

(* How supabase.functions.invoke('run-code') answers: an error object, a
   successful run, a compile or runtime error, no data, or a rejection *)
BackendOutcomes == {"error", "success", "failure", "nodata", "throws"}

(* Reading error.name and error.message in the catch block of runJavaScript:
   what the read throws, if anything *)
readNameAndMessage(error) ==
    CASE error = "Error" -> NotThrown
      [] error = "null" -> "Error"
      [] error = "trapError" -> "Error"
      [] error = "trapNull" -> "null"

(* Reading error.message in the catch block of runCode *)
readMessage(error) ==
    CASE error = "Error" -> NotThrown
      [] error = "null" -> "Error"
      [] error = "trapError" -> "Error"
      [] error = "trapNull" -> "null"

(* console.log = captureLog('log') and the three others: the methods of
   run r *)
captureLog(r) == r

(* The catch block of runJavaScript: push an error line and return the logs,
   unless reading the error throws *)
runJavaScriptCatch(logs, error) ==
    IF readNameAndMessage(error) = NotThrown
    THEN [logs |-> Append(logs, "error"), raised |-> NotThrown]
    ELSE [logs |-> logs, raised |-> readNameAndMessage(error)]

(* logs.some(l => l.type === 'error') *)
hasErrors(logs) == \E i \in 1..Len(logs) : logs[i] = "error"

(* runCode from the point where the sandbox has returned its logs or has
   raised: add the logs and set the status, or the catch block; an error
   thrown in the catch block rejects runCode's promise *)
finishRun(st, out, result) ==
    IF result.raised = NotThrown
    THEN [status |-> IF hasErrors(result.logs) THEN "error" ELSE "success",
          output |-> out \o result.logs, pc |-> "done",
          lines |-> result.logs]
    ELSE IF readMessage(result.raised) = NotThrown
         THEN [status |-> "error", output |-> Append(out, "error"),
               pc |-> "done", lines |-> <<"error">>]
         ELSE [status |-> st, output |-> out, pc |-> "rejected",
               lines |-> <<>>]

RunnerUnchanged ==
    UNCHANGED <<now, storage, budgetVars, reactVars, chan, throttleVars,
                wbVars, remoteWb, inbox, ghostVars, last, presenceVars,
                roomIdFromUrl, useRoomVars, canvasVars>>

(* The state when run r has finished with the given result; fault notes
   that the sandbox returned a structured error or raised *)
Finished(r, language, original, st, out, result, fault) ==
    LET end == finishRun(st, out, result)
    IN /\ status' = end.status
       /\ output' = end.output
       /\ runs' = [runs EXCEPT ![r] =
                     [pc |-> end.pc, language |-> language,
                      original |-> original, logs |-> result.logs,
                      lines |-> end.lines, fault |-> fault]]

(* runCode(code, language) up to its first await that waits for a timer, the
   network or a script; JavaScript that returns no Promise runs to the end
   of runCode within the call *)
RunCode(r, language, program) ==
    /\ runs[r].pc = "idle"
    /\ \A q \in Runs : q < r => runs[q].pc # "idle"
    /\ language = "javascript" \/ program = NoProgram
    /\ LET started == <<"info">>
           printed == IF program.prints = "none" THEN <<>>
                      ELSE <<program.prints>>
           awaiting(out, logs) ==
               /\ status' = "running"
               /\ output' = out
               /\ runs' = [runs EXCEPT ![r] =
                             [pc |-> "awaiting", language |-> language,
                              original |-> console, logs |-> logs,
                              lines |-> <<>>, fault |-> FALSE]]
       IN CASE language = "javascript" /\ program.ends = "promise" ->
                 /\ console' = captureLog(r)
                 /\ awaiting(started, printed)
            [] language = "javascript" /\ program.ends # "promise" ->
                 LET originalLog == console
                     result ==
                         CASE program.ends = "throws" ->
                                runJavaScriptCatch(printed, program.thrown)
                           [] program.ends = "value" ->
                                [logs |-> Append(printed, "log"),
                                 raised |-> NotThrown]
                           [] OTHER ->
                                [logs |-> printed, raised |-> NotThrown]
                 IN /\ console' = originalLog
                    /\ Finished(r, language, originalLog, "running", started,
                                result, program.ends = "throws")
            [] language = "python" ->
                 /\ awaiting(started, <<>>)
                 /\ UNCHANGED console
            [] language \in {"cpp", "java"} ->
                 /\ awaiting(Append(started, "info"), <<>>)
                 /\ UNCHANGED console
            [] OTHER ->
                 /\ Finished(r, language, console, "running", started,
                             [logs |-> <<>>, raised |-> "Error"], TRUE)
                 /\ UNCHANGED console
    /\ UNCHANGED pyodideRef
    /\ RunnerUnchanged

(* The Promise the user's JavaScript returned settles: runJavaScript goes on
   after its await, restores the console methods it saved and returns, and
   runCode goes on to its end *)
ResumeJavaScript(r, settles) ==
    /\ runs[r].pc = "awaiting"
    /\ runs[r].language = "javascript"
    /\ LET result == IF settles = NotThrown
                     THEN [logs |-> runs[r].logs, raised |-> NotThrown]
                     ELSE runJavaScriptCatch(runs[r].logs, settles)
       IN /\ console' = runs[r].original
          /\ Finished(r, "javascript", runs[r].original, status, output,
                      result, settles # NotThrown)
    /\ UNCHANGED pyodideRef
    /\ RunnerUnchanged

(* loadPyodide and the Python run answer: runPython returns its logs and
   runCode goes on to its end *)
ResumePython(r, outcome) ==
    /\ runs[r].pc = "awaiting"
    /\ runs[r].language = "python"
    /\ outcome \in {"scriptFails", "loadFails"} => ~pyodideRef
    /\ LET loaded ==
               CASE pyodideRef -> output
                 [] outcome = "scriptFails" -> output
                 [] outcome = "loadFails" -> output \o <<"info", "error">>
                 [] OTHER -> output \o <<"info", "info">>
           logs == CASE outcome = "stdout" -> <<"log">>
                     [] outcome = "silent" -> <<"info">>
                     [] OTHER -> <<"error">>
       IN /\ pyodideRef' =
                (pyodideRef \/ outcome \notin {"scriptFails", "loadFails"})
          /\ Finished(r, "python", runs[r].original, status, loaded,
                      [logs |-> logs, raised |-> NotThrown],
                      outcome \in {"raises", "scriptFails", "loadFails"})
    /\ UNCHANGED console
    /\ RunnerUnchanged

(* supabase.functions.invoke answers: runBackend returns its logs and
   runCode goes on to its end *)
ResumeBackend(r, outcome) ==
    /\ runs[r].pc = "awaiting"
    /\ runs[r].language \in {"cpp", "java"}
    /\ LET logs == IF outcome = "success" THEN <<"log", "info">>
                   ELSE <<"error">>
       IN Finished(r, runs[r].language, runs[r].original, status, output,
                   [logs |-> logs, raised |-> NotThrown],
                   outcome # "success")
    /\ UNCHANGED <<console, pyodideRef>>
    /\ RunnerUnchanged

NextRunner ==
    \/ \E r \in Runs, language \in RunLanguages, program \in JsPrograms :
            RunCode(r, language, program)
    \/ \E r \in Runs, settles \in JsSettles : ResumeJavaScript(r, settles)
    \/ \E r \in Runs, outcome \in PythonOutcomes : ResumePython(r, outcome)
    \/ \E r \in Runs, outcome \in BackendOutcomes : ResumeBackend(r, outcome)

SpecRunner == InitIn({RunnerScenario}) /\ [][NextRunner]_vars

-----------------------------------------------------------------------------
Next ==
    \/ \E p \in Peers, roomId \in RoomIds : Mount(p, roomId)
    \/ \E p \in Creators, q \in QuotaOutcomes : MountNew(p, q)
    \/ \E p \in Peers, q \in QuotaOutcomes : CreateRoom(p, q)
    \/ \E p \in Peers : Unmount(p)
    \/ \E p \in Peers : SubscribeConfirm(p)
    \/ \E p \in Peers : TrackResolved(p)
    \/ \E p \in Peers : Rejoin(p)
    \/ \E p \in Peers, c \in EditCodes, q \in QuotaOutcomes : UpdateCode(p, c, q)
    \/ \E p \in Peers, l \in Languages, q \in QuotaOutcomes : UpdateLanguage(p, l, q)
    \/ \E p \in Peers : TimerFire(p)
    \/ \E p \in Peers, s \in Snapshots : BroadcastWhiteboard(p, s)
    \/ \E p \in Peers, i \in 1..MaxInbox : OnCodeUpdate(p, i)
    \/ \E p \in Peers, i \in 1..MaxInbox : OnRequestState(p, i)
    \/ \E p \in Peers, i \in 1..MaxInbox : OnSyncState(p, i)
    \/ \E p \in Peers, i \in 1..MaxInbox : OnWhiteboardUpdate(p, i)
    \/ \E p \in Peers, i \in 1..MaxInbox : Drop(p, i)
    \/ \E b \in Peers : CorruptStorage(b)
    \/ \E p \in Peers, c \in EditCodes, l \in Languages, s \in Snapshots :
            ForeignSyncState(p, c, l, s)
    \/ Tick

Spec == Init /\ [][Next]_vars

-----------------------------------------------------------------------------
(* Runs in which the tabs stay mounted, the channel is reliable and keeps
   send order, the cache works, and timers and deliveries eventually run *)

NextLive ==
    \/ \E p \in Peers, roomId \in RoomIds : Mount(p, roomId)
    \/ \E p \in Creators : MountNew(p, FALSE)
    \/ \E p \in Peers : SubscribeConfirm(p)
    \/ \E p \in Peers : TrackResolved(p)
    \/ \E p \in Peers, c \in EditCodes : UpdateCode(p, c, FALSE)
    \/ \E p \in Peers, l \in Languages : UpdateLanguage(p, l, FALSE)
    \/ \E p \in Peers : TimerFire(p)
    \/ \E p \in Peers : OnCodeUpdate(p, 1)
    \/ \E p \in Peers : OnRequestState(p, 1)
    \/ \E p \in Peers : OnSyncState(p, 1)
    \/ Tick

Fairness ==
    /\ WF_vars(Tick)
    /\ \A p \in Peers :
          /\ WF_vars(TimerFire(p))
          /\ WF_vars(SubscribeConfirm(p))
          /\ WF_vars(TrackResolved(p))
          /\ WF_vars(OnCodeUpdate(p, 1))
          /\ WF_vars(OnRequestState(p, 1))
          /\ WF_vars(OnSyncState(p, 1))

SpecLive == InitIn({EditScenario}) /\ [][NextLive]_vars /\ Fairness

-----------------------------------------------------------------------------
(* Properties *)

Quiescent ==
    \A p \in Peers :
        /\ inbox[p] = <<>>
        /\ syncTimer[p] = Null \/ pendingCode[p] = NoCode
        /\ chan[p] = Null \/ chan[p].status = "joined"

ReliableRun == ~cfg.lossy /\ ~cfg.faults /\ cfg.rejoins = 0

SameSession(o, v) ==
    /\ o # v
    /\ Mounted(o) /\ isOwnerRef[o]
    /\ Mounted(v) /\ ~isOwnerRef[v]
    /\ chan[v].topic = chan[o].topic

Agree(o, v) ==
    /\ room[v].code = room[o].code
    /\ room[v].language = room[o].language

IsSelfEcho(step) ==
    /\ step.op \in {"code_update", "whiteboard_update"}
    /\ step.arg.updatedBy = userId(step.peer)

(* C1: with one owner, a working cache and a channel that delivers every
   message in send order, once nothing is in flight and no deferred send is
   outstanding, a viewer that has left the placeholder shows the owner's code
   and language. *)
C1_Convergence ==
    \A o \in Peers, v \in Peers :
        (ReliableRun /\ Quiescent /\ SameSession(o, v)
            /\ room[v].code # Placeholder)
        => Agree(o, v)

(* C2: a code_update or whiteboard_update whose updatedBy is the receiving
   peer's own id leaves that peer's code, language and remote drawing snapshot
   as they were. *)
C2_SelfEchoExclusion ==
    [][IsSelfEcho(last')
        => /\ room'[last'.peer] = room[last'.peer]
           /\ remoteWb'[last'.peer] = remoteWb[last'.peer]]_vars

C2_Witness ==
    /\ IsSelfEcho(last)
    /\ last.op = "code_update"
    /\ room[last.peer].code # last.arg.code

(* C3: after any owner updateCode calls, the last edit is either in the
   pending slot with a deferred send scheduled, or it is the code of the last
   code_update the broadcaster sent; and a pending payload is always
   eventually sent, so the final edit does not stay in the pending slot. *)
C3_LastValueWins ==
    /\ [](\A p \in Peers :
            lastEdit[p] # NoCode
            => IF pendingCode[p] # NoCode
               THEN pendingCode[p] = lastEdit[p] /\ syncTimer[p] # Null
               ELSE bcast[p].code = lastEdit[p])
    /\ \A p \in Peers :
            (pendingCode[p] # NoCode)
            ~> (pendingCode[p] = NoCode /\ bcast[p].code = lastEdit[p])

C3_Witness ==
    \E p \in Peers :
        /\ last.op = "timer" /\ last.peer = p
        /\ last.sent # NoMsg
        /\ last.sent.code = lastEdit[p]
        /\ used.edits = MaxEdits
        /\ bcast[p].n = 2

Ceil(a, b) == (a + b - 1) \div b

(* C4: two consecutive sends of the throttled broadcaster, immediate or
   deferred, are at least SYNC_INTERVAL apart, and the number of sends is at
   most ceil(elapsed / SYNC_INTERVAL) + 1. *)
C4_ThrottleBound ==
    [][\A p \in Peers :
        (bcast[p].n > 0 /\ bcast'[p].n = bcast[p].n + 1)
        => /\ bcast'[p].at - bcast[p].at >= SYNC_INTERVAL
           /\ bcast'[p].n
                <= Ceil(bcast'[p].at - bcast'[p].first, SYNC_INTERVAL) + 1]_vars

C4_Witness ==
    \E p \in Peers :
        /\ bcast[p].n = 2
        /\ bcast[p].at - bcast[p].first = SYNC_INTERVAL
        /\ used.edits = MaxEdits

(* C5: an owner that handles a request_state sends a sync_state flagged
   fromOwner whose code and language are the owner's in-memory code and
   language at that moment. *)
C5_OwnerRepliesCurrentState ==
    [][(last'.op = "request_state" /\ isOwnerRef[last'.peer])
        => /\ last'.sent.event = "sync_state"
           /\ last'.sent.fromOwner
           /\ last'.sent.code = room[last'.peer].code
           /\ last'.sent.language = room[last'.peer].language]_vars

(* C6: on a channel that delivers every message in send order, once nothing
   is in flight, a viewer whose request_state was handled by the subscribed
   owner has replaced its placeholder with the owner's code and language. *)
C6_JoinHandshake ==
    \A o \in Peers, v \in Peers :
        (~cfg.lossy /\ cfg.rejoins = 0 /\ Quiescent /\ SameSession(o, v)
            /\ stats[v].served)
        => room[v].code # Placeholder /\ Agree(o, v)

(* C7: a viewer that handles sync_state{code, language, fromOwner: true}
   has that code and that language afterwards, with its session id and owner
   flag as before. *)
C7_ViewerAppliesSyncState ==
    [][(/\ last'.op = "sync_state"
        /\ Mounted(last'.peer)
        /\ ~isOwnerRef[last'.peer]
        /\ last'.arg.fromOwner)
        => /\ room'[last'.peer].code = last'.arg.code
           /\ room'[last'.peer].language = last'.arg.language
           /\ room'[last'.peer].id = room[last'.peer].id
           /\ room'[last'.peer].isOwner = room[last'.peer].isOwner
           /\ isOwnerRef'[last'.peer] = isOwnerRef[last'.peer]]_vars

C7_Witness ==
    /\ last.op = "sync_state"
    /\ ~isOwnerRef[last.peer]
    /\ last.arg.fromOwner
    /\ last.arg.language = "python"
    /\ room[last.peer].language = "python"
    /\ room[last.peer].code = DefaultCode("python")

(* C8: a request_state is sent exactly by the step in which a viewer's
   subscribe callback completes, and a viewer has sent one request_state per
   subscribe confirmation whose callback has completed. *)
C8_OneRequestPerConfirmation ==
    /\ (last.sent.event = "request_state")
        <=> (last.op = "trackResolved" /\ ~isOwnerRef[last.peer])
    /\ \A p \in Peers :
        (Mounted(p) /\ ~isOwnerRef[p])
        => stats[p].requests =
              stats[p].confirms
                - (IF chan[p].status = "tracking" THEN 1 ELSE 0)

C8_Witness ==
    \E p \in Peers :
        /\ Mounted(p) /\ ~isOwnerRef[p]
        /\ chan[p].status = "joined"
        /\ stats[p].confirms = 2
        /\ stats[p].requests = 2

NoPlaceholderStored ==
    \A b \in Peers :
        storage[b] # Corrupt
        => \A id \in RoomIds :
              storage[b][id] # Null => storage[b][id].code # Placeholder

(* C9: no step taken while a peer is, or becomes, a viewer changes the cache
   of that peer's browser: not its mount, not the messages it receives, not
   its attempted edits; and no cache record ever holds the placeholder. *)
C9_ViewerNeverWritesCache ==
    /\ [][\A p \in Peers :
            (Mounted(p)' /\ ~isOwnerRef'[p] /\ last'.op # "corrupt")
            => storage'[BrowserOf(p)] = storage[BrowserOf(p)]]_vars
    /\ []NoPlaceholderStored

C9_Witness ==
    /\ last.op \in {"updateCode", "updateLanguage"}
    /\ ~isOwnerRef[last.peer]
    /\ room[last.peer].code \notin {Placeholder, last.arg}
    /\ getStoredRoom(storage[BrowserOf(last.peer)], room[last.peer].id) = Null

(* C10: a mount with a session id whose cache record has isOwner = true
   makes the peer an editing owner with the cached code and language; the
   owner flag of a mounted hook is never cleared, and a request_state is
   never sent by a peer whose owner flag is set. *)
C10_OwnerReload ==
    /\ [][LET storedRoom ==
                getStoredRoom(storage[BrowserOf(last'.peer)], last'.arg)
          IN (last'.op = "mount" /\ storedRoom # Null /\ storedRoom.isOwner)
             => /\ isOwnerRef'[last'.peer]
                /\ ~isViewOnly'[last'.peer]
                /\ room'[last'.peer].id = last'.arg
                /\ room'[last'.peer].isOwner
                /\ room'[last'.peer].code = storedRoom.code
                /\ room'[last'.peer].language = storedRoom.language]_vars
    /\ [][\A p \in Peers :
            (isOwnerRef[p] /\ Mounted(p)') => isOwnerRef'[p]]_vars
    /\ [](last.sent.event = "request_state" => ~isOwnerRef[last.peer])

C10_Witness ==
    \E p \in Peers :
        /\ mounts[p] = 2
        /\ Mounted(p) /\ isOwnerRef[p]
        /\ room[p].code \in EditCodes
        /\ chan[p].status = "joined"
        /\ stats[p].confirms = 1
        /\ stats[p].requests = 0

(* C11: a mount with a session id whose cache record is absent or not
   flagged isOwner makes the peer a view-only non-owner showing the
   placeholder, and while it stays in that session its code remains the
   placeholder until it handles a sync_state or a code_update. *)
C11_ViewerStartsOnPlaceholder ==
    [][/\ LET storedRoom ==
                getStoredRoom(storage[BrowserOf(last'.peer)], last'.arg)
          IN (last'.op = "mount" /\ (storedRoom = Null \/ ~storedRoom.isOwner))
             => /\ ~isOwnerRef'[last'.peer]
                /\ isViewOnly'[last'.peer]
                /\ room'[last'.peer].id = last'.arg
                /\ room'[last'.peer].code = Placeholder
       /\ \A p \in Peers :
            (/\ Mounted(p) /\ ~isOwnerRef[p] /\ room[p].code = Placeholder
             /\ Mounted(p)' /\ room'[p].id = room[p].id
             /\ ~(last'.peer = p /\ last'.op \in {"sync_state", "code_update"}))
            => room'[p].code = Placeholder /\ ~isOwnerRef'[p]]_vars

C11_Witness ==
    /\ last.op \in {"updateCode", "updateLanguage", "subscribed"}
    /\ Mounted(last.peer)
    /\ ~isOwnerRef[last.peer] /\ isViewOnly[last.peer]
    /\ room[last.peer].code = Placeholder
    /\ \E o \in Peers : SameSession(o, last.peer) /\ room[o].code \in EditCodes

(* C12: at most one peer subscribed to a session's channel has its owner
   flag set. *)
C12_SingleOwner ==
    \A p \in Peers, q \in Peers :
        (p # q /\ Mounted(p) /\ Mounted(q)
            /\ Listening(p, chan[p].topic) /\ Listening(q, chan[p].topic))
        => ~(isOwnerRef[p] /\ isOwnerRef[q])

(* C13: while a hook stays mounted and subscribed to the same session's
   channel, its owner flag keeps the value it got when it joined. *)
C13_OwnerFlagFixed ==
    [][\A p \in Peers :
        (Mounted(p) /\ Mounted(p)' /\ chan'[p].topic = chan[p].topic)
        => isOwnerRef'[p] = isOwnerRef[p]]_vars

(* C14: updateCode and updateLanguage called by a viewer change neither its
   code and language, nor any cache, nor its pending slot, timer and last-send
   time, nor its channel, and send nothing. *)
C14_ViewerEditsAreNoOps ==
    [][(/\ last'.op \in {"updateCode", "updateLanguage"}
        /\ ~isOwnerRef[last'.peer])
        => /\ room'[last'.peer] = room[last'.peer]
           /\ storage' = storage
           /\ pendingCode' = pendingCode
           /\ syncTimer' = syncTimer
           /\ lastSync' = lastSync
           /\ chan' = chan
           /\ inbox' = inbox
           /\ last'.sent = NoMsg]_vars

C14_Witness ==
    /\ last.op = "updateLanguage"
    /\ last.arg = "python"
    /\ Mounted(last.peer) /\ ~isOwnerRef[last.peer]
    /\ room[last.peer].language = "javascript"
    /\ room[last.peer].code \in EditCodes
    /\ \E o \in Peers : SameSession(o, last.peer) /\ Listening(o, chan[o].topic)

StateCarrying == {"code_update", "sync_state", "whiteboard_update"}

(* The peer holds the owner flag for the session of its channel: its flag is
   set and it created that session or has it cached as owner *)
OwnsChannelSession(p) ==
    /\ isOwnerRef[p]
    /\ LET storedRoom ==
              getStoredRoom(storage[BrowserOf(p)], chan[p].topic)
       IN \/ room[p].id = chan[p].topic
          \/ (storedRoom # Null /\ storedRoom.isOwner)

(* C15: a code_update, sync_state or whiteboard_update is put on a session's
   channel only by a peer that holds the owner flag for that session. *)
C15_OnlyOwnerEmitsState ==
    (last.sent.event \in StateCarrying /\ Mounted(last.peer))
    => OwnsChannelSession(last.peer)

(* C16: a sync_state handled by a peer whose owner flag is set, or whose
   fromOwner flag is not true, leaves the receiver's code, language, remote
   drawing snapshot and every cache unchanged. *)
C16_SyncStateRoleGate ==
    [][(/\ last'.op = "sync_state"
        /\ (isOwnerRef[last'.peer] \/ ~last'.arg.fromOwner))
        => /\ room'[last'.peer] = room[last'.peer]
           /\ remoteWb'[last'.peer] = remoteWb[last'.peer]
           /\ storage' = storage]_vars

C16_Witness ==
    /\ last.op = "sync_state"
    /\ ~last.arg.fromOwner
    /\ Mounted(last.peer) /\ ~isOwnerRef[last.peer]
    /\ room[last.peer].code # last.arg.code
    /\ remoteWb[last.peer] # last.arg.whiteboard

FromLanguageSwitch(msg) ==
    msg.event = "code_update" /\ "timestamp" \notin DOMAIN msg

(* C17: updateLanguage(L) by an editing peer sets, in that one step, code to
   the default of L and language to L, stores that pair when the cache works,
   and sends a code_update with that pair; every message of a language switch
   in flight pairs a language with its default code. *)
C17_LanguageSwitchAtomic ==
    /\ [][(last'.op = "updateLanguage" /\ editAllowed(last'.peer))
            => /\ room'[last'.peer].language = last'.arg
               /\ room'[last'.peer].code = DefaultCode(last'.arg)
               /\ FromLanguageSwitch(last'.sent)
               /\ last'.sent.language = last'.arg
               /\ last'.sent.code = DefaultCode(last'.arg)
               /\ ~cfg.faults
                    => getStoredRoom(storage'[BrowserOf(last'.peer)],
                                     room'[last'.peer].id) = room'[last'.peer]
          ]_vars
    /\ [](\A p \in Peers : \A i \in 1..Len(inbox[p]) :
            FromLanguageSwitch(inbox[p][i])
            => inbox[p][i].code = DefaultCode(inbox[p][i].language))

C17_Witness ==
    /\ last.op = "updateLanguage"
    /\ last.arg = "python"
    /\ last.sent # NoMsg
    /\ lastEdit[last.peer] \in EditCodes
    /\ room[last.peer].code = DefaultCode("python")
    /\ \E v \in Peers :
          /\ Len(inbox[v]) > 0
          /\ inbox[v][Len(inbox[v])] = last.sent

(* C18: a code_update whose timestamp is older than that of a code_update
   the peer has already applied does not replace the peer's document. *)
C18_RejectsStaleUpdates ==
    [][(/\ last'.op = "code_update"
        /\ "timestamp" \in DOMAIN last'.arg
        /\ last'.arg.timestamp < stats[last'.peer].ts)
        => room'[last'.peer] = room[last'.peer]]_vars

-----------------------------------------------------------------------------
SeqRange(seq) == {seq[i] : i \in 1..Len(seq)}

UniqueIds(shapes) ==
    \A i, j \in 1..Len(shapes) : shapes[i].id = shapes[j].id => i = j

(* C19: whenever the remote snapshot effect diffs the local shapes against an
   incoming snapshot with unique ids, toDelete is exactly the local shapes
   whose id is absent from the incoming ones, toCreate exactly the incoming
   shapes whose id is absent locally, toUpdate exactly the incoming shapes
   whose id is on both sides and whose serialized value differs, each shape
   listed once; a shape on both sides with equal value is in none of them *)
C19_ShapeDiff ==
    (applied # Null /\ ~applied.skipped /\ UniqueIds(applied.next)) =>
        LET local == SeqRange(applied.cur)
            incoming == SeqRange(applied.next)
            localIds == {c.id : c \in local}
            incomingIds == {n.id : n \in incoming}
        IN /\ SeqRange(applied.toDelete)
                = {c \in local : c.id \notin incomingIds}
           /\ SeqRange(applied.toCreate)
                = {n \in incoming : n.id \notin localIds}
           /\ SeqRange(applied.toUpdate)
                = {n \in incoming :
                      \E c \in local :
                          /\ c.id = n.id
                          /\ StringifyShape(c) # StringifyShape(n)}
           /\ UniqueIds(applied.toDelete)
           /\ UniqueIds(applied.toCreate)
           /\ UniqueIds(applied.toUpdate)
           /\ \A n \in incoming \cap local :
                  n \notin SeqRange(applied.toDelete)
                            \cup SeqRange(applied.toCreate)
                            \cup SeqRange(applied.toUpdate)

(* local {A, B, C} against incoming {B, C changed, D} *)
C19_Witness ==
    /\ applied # Null
    /\ ~applied.skipped
    /\ applied.cur = <<[id |-> "A", v |-> 1], [id |-> "B", v |-> 1],
                       [id |-> "C", v |-> 1]>>
    /\ applied.next = <<[id |-> "B", v |-> 1], [id |-> "C", v |-> 2],
                        [id |-> "D", v |-> 1]>>
    /\ applied.toDelete = <<[id |-> "A", v |-> 1]>>
    /\ applied.toCreate = <<[id |-> "D", v |-> 1]>>
    /\ applied.toUpdate = <<[id |-> "C", v |-> 2]>>
    /\ editor = SeqRange(applied.next)

(* C20: whenever the remote snapshot effect receives the drawing snapshot of
   its previous run (shapes with unique ids) while the canvas holds the
   shapes that run left, the shape set stays as it is and the run creates,
   deletes and updates nothing, whether the lastSnapshotRef guard skips the
   run or the diff is computed again *)
C20_IdempotentApply ==
    (applied # Null /\ applied.again /\ UniqueIds(applied.next)) =>
        /\ applied.result = SeqRange(applied.cur)
        /\ applied.toDelete = <<>>
        /\ applied.toCreate = <<>>
        /\ applied.toUpdate = <<>>

(* the second run is not skipped by the guard: the diff itself comes out
   empty *)
C20_Witness ==
    /\ applied # Null
    /\ applied.again
    /\ ~applied.skipped
    /\ UniqueIds(applied.next)
    /\ Len(applied.next) = MaxShapes
    /\ editor = SeqRange(applied.next)

(* C21: applying a remote drawing snapshot (shapes with unique ids) never
   makes the canvas hand a snapshot to onSnapshot: the store listener does nothing for the changes of a remote
   apply, so the canvas never hands out more snapshots than its user has
   made changes, and two canvases mirroring each other cannot feed a
   broadcast loop *)
C21_RemoteApplyNeverEmits ==
    (applied # Null /\ applied.unique) => Len(onSnapshot) <= drawn

-----------------------------------------------------------------------------
(* The canvas hands a snapshot to onSnapshot in this step *)
Emits == Len(onSnapshot') > Len(onSnapshot)

Emitted == onSnapshot'[Len(onSnapshot')]

(* C22 as stated: the canvas emits a snapshot only after a quiet period of DEBOUNCE ms with no local change, each change restarting the wait, and never emits a snapshot whose serialized shape set equals that of the last snapshot it sent *)
C22_QuietAndNeverRepeats ==
    [][Emits =>
          /\ now >= drawnAt + DEBOUNCE
          /\ Len(onSnapshot) > 0 =>
                StringifySnapshot(Emitted)
                    # StringifySnapshot(onSnapshot[Len(onSnapshot)])]_vars

(* C22 amended: the canvas emits a snapshot only after a quiet period of DEBOUNCE ms with no local change, each change restarting the wait, and never emits a snapshot whose serialized shape set equals lastSnapshotRef, the last snapshot it sent or, if that came later, the last remote snapshot it applied *)
C22_QuietAndChanged ==
    [][Emits =>
          /\ now >= drawnAt + DEBOUNCE
          /\ StringifySnapshot(Emitted) # lastSnapshotRef]_vars

(* Two local changes less than DEBOUNCE ms apart were followed by a single emission, DEBOUNCE ms after the second *)
C22_Witness ==
    /\ cfg.board
    /\ drawn = 2
    /\ Len(onSnapshot) = 1
    /\ applied = Null
    /\ timeoutId = Null
    /\ now = drawnAt + DEBOUNCE
    /\ now < StartTime + 2 * DEBOUNCE

-----------------------------------------------------------------------------
(* No debounce timer and no undelivered store change is pending on the
   mounted canvas, whose user has drawn *)
DrawingStopped ==
    /\ cfg.board
    /\ Mounted(Drawer)
    /\ drawnAt > 0
    /\ timeoutId = Null
    /\ ~pendingHistory

(* The page holds the shapes of the last remote snapshot the canvas was
   handed, whether the effect applied it or skipped it as already shown *)
PageIsRemote ==
    /\ applied # Null
    /\ SeqRange(applied.next) = editor

(* C23: every snapshot the canvas hands to broadcastWhiteboard is sent at once as a whiteboard_update, the rate limit dropping none; so once drawing has stopped the shapes on the page are those of the last whiteboard_update the peer sent, unless they are the shapes a remote snapshot delivered *)
C23_LatestDrawingSent ==
    [][/\ (Emits /\ cfg.board) =>
             /\ last'.op = "broadcastWhiteboard"
             /\ last'.sent = WhiteboardUpdateMsg(Drawer, WhiteboardSnapshot(Emitted))
       /\ DrawingStopped' =>
             \/ wbRef'[Drawer] = WhiteboardSnapshot(getSnapshotFromEditor(editor'))
             \/ PageIsRemote']_vars

(* The canvas has sent two snapshots exactly WB_INTERVAL ms apart *)
C23_Witness ==
    /\ DrawingStopped
    /\ Len(onSnapshot) = 2
    /\ applied = Null
    /\ last.op = "broadcastWhiteboard"
    /\ last.sent # NoMsg
    /\ now = StartTime + 2 * WB_INTERVAL
    /\ wbRef[Drawer] = WhiteboardSnapshot(getSnapshotFromEditor(editor))

-----------------------------------------------------------------------------
(* The keys of a directory snapshot, other than the tab's own id, that have
   an entry *)
OthersWithEntry(p, state) ==
    {key \in DOMAIN state : key # userId(p) /\ Len(state[key]) > 0}

(* C24: after a presence-sync event the presence list holds exactly one record for each key of the directory snapshot, other than the tab's own id, that has an entry, taken from that key's first entry, and nothing else: no record for the tab itself and none for a key missing from the snapshot *)
C24_PresenceRebuilt ==
    last.op = "presenceSync" =>
        LET users == remotePresence[last.peer]
            others == OthersWithEntry(last.peer, last.arg)
        IN /\ Len(users) = Cardinality(others)
           /\ {users[i].id : i \in 1..Len(users)} = others
           /\ \A i \in 1..Len(users) :
                 /\ users[i].id # userId(last.peer)
                 /\ users[i].isOwner = last.arg[users[i].id][1].is_owner

(* A sync whose directory holds the tab's own key with an entry, a key with two entries and a key with none *)
C24_Witness ==
    /\ last.op = "presenceSync"
    /\ userId(last.peer) \in DOMAIN last.arg
    /\ Len(last.arg[userId(last.peer)]) > 0
    /\ \E key \in DOMAIN last.arg : Len(last.arg[key]) = 0
    /\ \E key \in DOMAIN last.arg :
            key # userId(last.peer) /\ Len(last.arg[key]) = MaxEntries
    /\ Len(remotePresence[last.peer]) = 1

(* C25: after a presence-sync event the connected-peer count is the number of keys of the directory snapshot, the tab's own key included *)
C25_ConnectedCount ==
    last.op = "presenceSync" =>
        connectedUsers[last.peer] = Cardinality(DOMAIN last.arg)

(* A sync whose directory has three keys, the tab's own among them, of which one has no entry: the count is three while one other user is listed *)
C25_Witness ==
    /\ last.op = "presenceSync"
    /\ userId(last.peer) \in DOMAIN last.arg
    /\ \E key \in DOMAIN last.arg : Len(last.arg[key]) = 0
    /\ connectedUsers[last.peer] = 3
    /\ Len(remotePresence[last.peer]) = 1

(* C26: a cursor move publishes a presence record with the new cursor, with the selection range if the selection is not empty and without a selection field if it is empty or missing, whatever the record published before held *)
C26_CursorPublished ==
    (last.op = "updateCursor" /\ chan[last.peer] # Null) =>
        LET record == tracked[last.peer]
            selection == last.arg.selection
            nonEmpty == selection # Null /\ selection.start # selection.end
        IN /\ record.cursor = last.arg.position
           /\ record.user_id = userId(last.peer)
           /\ nonEmpty => ("selection" \in DOMAIN record
                              /\ record.selection = selection)
           /\ ~nonEmpty => "selection" \notin DOMAIN record

(* A move with an empty selection after a record that carried a selection *)
C26_Witness ==
    /\ last.op = "updateCursor"
    /\ chan[last.peer] # Null
    /\ last.arg.before # Null
    /\ "selection" \in DOMAIN last.arg.before
    /\ last.arg.selection # Null
    /\ last.arg.selection.start = last.arg.selection.end
    /\ "selection" \notin DOMAIN tracked[last.peer]

-----------------------------------------------------------------------------
(* The step is a call of a broadcaster by a tab that has no channel *)
CallWithoutChannel ==
    /\ last'.op \in {"updateCode", "updateLanguage", "broadcastWhiteboard",
                     "updateCursor"}
    /\ chan[last'.peer] = Null

(* C27: a call of updateCode, updateLanguage, broadcastWhiteboard or updateCursor by a tab without a channel sends nothing and leaves the pending code, the deferred-send timer, the send times, the noted snapshot, the published presence record and every inbox as they were, so that the state on which a later channel acts holds nothing of the call *)
C27_NoChannelNoEffect ==
    [][CallWithoutChannel =>
          /\ last'.sent = NoMsg
          /\ UNCHANGED <<throttleVars, wbVars, tracked, inbox, bcast, room,
                         storage, chan>>]_vars

(* A tab that called broadcastWhiteboard before it had a channel, which left no trace, has mounted, edited and sent that edit *)
C27_Witness ==
    /\ cfg.early
    /\ used.draws > 0
    /\ lastWbSync[Drawer] = 0
    /\ wbRef[Drawer] = NoSnapshot
    /\ chan[Drawer] # Null
    /\ last.op = "updateCode"
    /\ last.peer = Drawer
    /\ last.sent # NoMsg

-----------------------------------------------------------------------------
(* The step tears down the session of the followed tab: the hook unmounts,
   or its roomId changes and the effect leaves the tab in another room *)
TearsDown ==
    /\ Mounted(Drawer)
    /\ \/ last'.op = "unmount" /\ ~Mounted(Drawer)'
       \/ last'.op = "changeRoom" /\ room'[Drawer].id # room[Drawer].id

(* C28: when a session is torn down, by unmount or by a change of the session id, the pending deferred code send and the pending canvas debounce timer are cancelled, so that no callback started in the torn-down session sends a code_update or whiteboard_update afterwards *)
C28_TeardownCancelsTimers ==
    [][TearsDown => syncTimer'[Drawer] = Null /\ timeoutId' = Null]_vars

-----------------------------------------------------------------------------
(* The topics on which the handlers of a tab are subscribed *)
ActiveSubscriptions(p) ==
    IF chan[p] = Null THEN {} ELSE {chan[p].topic} \cup chan[p].stale

(* C29: a tab is subscribed to at most one channel at any time; when its session id has changed, it is subscribed to the channel of the new session only and nothing sent on the previous channel waits for its handlers *)
C29_OneSubscription ==
    \A p \in Peers :
        /\ Cardinality(ActiveSubscriptions(p)) <= 1
        /\ (last.op = "changeRoom" /\ last.peer = p) =>
              /\ inbox[p] = <<>>
              /\ ActiveSubscriptions(p) = {room[p].id}

(* A tab moved to another room while a broadcast of the previous session was in flight to it *)
C29_Witness ==
    /\ last.op = "changeRoom"
    /\ last.arg.inFlight > 0
    /\ chan[last.peer].topic # "r1"
    /\ \E q \in Peers : q # last.peer /\ chan[q] # Null /\ chan[q].topic = "r1"


UseRoomCalls ==
    {"useRoom.mount", "useRoom.createRoom", "useRoom.updateCode",
     "useRoom.updateLanguage"}

(* C30: no error escapes from mount, createRoom, updateCode or updateLanguage of either room hook; a mount that reads a corrupt cache starts the room it starts when the cache has no record; a call whose cache write fails leaves the cache as it was *)
C30_PersistenceFaultsNeverFatal ==
    /\ \A p \in Peers : uncaught[p] = {}
    /\ (last.op = "mount" /\ storage[BrowserOf(last.peer)] = Corrupt) =>
            room[last.peer] = initialRoom(Null, last.arg)
    /\ (/\ last.op = "useRoom.mount"
        /\ last.arg.roomId # NoRoomId
        /\ last.arg.before = Corrupt) =>
            useRoom[last.peer].room =
                [id |-> last.arg.roomId, code |-> LoadingPlaceholder,
                 language |-> "javascript", isOwner |-> FALSE]
    /\ (last.op \in UseRoomCalls /\ last.arg.quotaExceeded) =>
            storage[BrowserOf(last.peer)] = last.arg.before


-----------------------------------------------------------------------------
(* C31: in every state of a run whose cache writes succeed, the cached record for the session id of a mounted owner holds the code and the language of the owner's room state *)
C31_CacheFollowsOwner ==
    \A p \in Peers :
        (~cfg.faults /\ Mounted(p) /\ room[p].isOwner) =>
            LET stored == getStoredRoom(storage[BrowserOf(p)], room[p].id)
            IN /\ stored # Null
               /\ stored.code = room[p].code
               /\ stored.language = room[p].language


-----------------------------------------------------------------------------
(* C33: the deferred callback of a tab sends exactly when the payload of the tab's last edit has not been sent yet and the tab has a channel; what it sends is that payload, and the pending slot is empty afterwards; when the last edit was sent at once after the callback was scheduled, the callback sends nothing *)
C33_DeferredSendsOnce ==
    [][\A p \in Peers :
          (last'.op = "timer" /\ last'.peer = p) =>
              /\ (last'.sent # NoMsg) <=> (bcast[p].unsent /\ chan[p] # Null)
              /\ (last'.sent # NoMsg) =>
                    /\ last'.sent.code = lastEdit[p]
                    /\ pendingCode'[p] = NoCode
                    /\ ~bcast'[p].unsent]_vars

(* A deferred callback found nothing pending: the edit made when its delay had passed was sent at once *)
C33_Witness ==
    /\ last.op = "timer"
    /\ last.sent = NoMsg
    /\ bcast[last.peer].n = 2
    /\ bcast[last.peer].at = now
    /\ bcast[last.peer].code = lastEdit[last.peer]


-----------------------------------------------------------------------------
(* C34: once a tab has broadcast a language switch, no deferred code_update it sends afterwards carries another language than the one it switched to last *)
C34_NoStaleLanguage ==
    [][\A p \in Peers :
          (/\ bcast[p].switch # "none"
           /\ last'.op = "timer"
           /\ last'.peer = p
           /\ last'.sent # NoMsg) =>
              last'.sent.language = bcast[p].switch]_vars


-----------------------------------------------------------------------------
(* C37: in every state of a mounted hook the role indicators agree: view-only is true exactly when the owner flag is false and the room's isOwner field equals the owner flag; the room state of hooks/useRoom.ts has view-only true exactly when its isOwner field is false *)
C37_RoleIndicatorsAgree ==
    \A p \in Peers :
        /\ Mounted(p) =>
              /\ isViewOnly[p] <=> ~isOwnerRef[p]
              /\ room[p].isOwner = isOwnerRef[p]
        /\ useRoom[p].room # Null =>
              (useRoom[p].isViewOnly <=> ~useRoom[p].room.isOwner)

(* A tab that joined as viewer, took the owner role through createRoom and then handled a broadcast *)
C37_Witness ==
    /\ last.op \in {"code_update", "sync_state"}
    /\ Mounted(last.peer)
    /\ isOwnerRef[last.peer]
    /\ chan[last.peer].topic # room[last.peer].id


-----------------------------------------------------------------------------
(* C38: whenever a mounted tab has a channel, the channel's topic is the id of the tab's current room, and every code_update a tab sends goes out on the channel of the room whose edit it carries *)
C38_ChannelFollowsRoom ==
    /\ \A p \in Peers :
          (Mounted(p) /\ chan[p] # Null) => chan[p].topic = room[p].id
    /\ (/\ last.op \in {"updateCode", "updateLanguage", "timer"}
        /\ last.sent # NoMsg) =>
            chan[last.peer].topic = room[last.peer].id

-----------------------------------------------------------------------------
(* C35: whenever the remote snapshot effect has applied an incoming drawing
   snapshot (shapes with unique ids) and no editor call threw, the shapes on
   the page are exactly the incoming shapes, same ids and same values,
   whatever the page held before; and in every run no id is in two of
   toDelete, toCreate and toUpdate *)
C35_ApplyYieldsIncoming ==
    applied # Null =>
        /\ (~applied.skipped /\ applied.threw = "none"
               /\ UniqueIds(applied.next)) =>
              applied.result = SeqRange(applied.next)
        /\ IdsOf(applied.toDelete) \cap IdsOf(applied.toCreate) = {}
        /\ IdsOf(applied.toDelete) \cap IdsOf(applied.toUpdate) = {}
        /\ IdsOf(applied.toCreate) \cap IdsOf(applied.toUpdate) = {}

(* a run that had to delete, to create and to update *)
C35_Witness ==
    /\ applied # Null
    /\ ~applied.skipped
    /\ applied.threw = "none"
    /\ UniqueIds(applied.next)
    /\ applied.toDelete # <<>>
    /\ applied.toCreate # <<>>
    /\ applied.toUpdate # <<>>
    /\ applied.result = SeqRange(applied.next)
    /\ applied.result # SeqRange(applied.cur)

(* C36: between two handlers of the canvas isApplyingRemote.current is
   false, also after an apply in which an editor call or loadSnapshot threw,
   so every local change leaves the listener's timer running and the timer's
   callback hands over every document that differs from lastSnapshotRef *)
C36_FlagClearedAfterApply ==
    /\ []~isApplyingRemote
    /\ [][/\ drawn' = drawn + 1 => timeoutId' # Null
          /\ (timeoutId # Null /\ timeoutId' = Null
                 /\ StringifySnapshot(getSnapshotFromEditor(editor))
                        # lastSnapshotRef) =>
                onSnapshot' = Append(onSnapshot,
                                     getSnapshotFromEditor(editor))]_vars

(* a local change made after an apply that threw, waiting to be sent *)
C36_Witness ==
    /\ applied # Null
    /\ applied.threw # "none"
    /\ drawn > applied.drawn
    /\ timeoutId # Null

-----------------------------------------------------------------------------
(* C32: no call of runCode ends with its promise rejected; the step in which
   a call ends leaves a status other than 'running'; if the sandbox returned
   a structured error or raised, that step appends an error line to the
   output and leaves the status 'error'; and it leaves 'success' only if the
   call added no error line *)
C32_RunCodeNeverThrows ==
    [][\A r \in Runs :
          (runs[r].pc # runs'[r].pc /\ runs'[r].pc \notin {"awaiting"}) =>
              /\ runs'[r].pc = "done"
              /\ status' # "running"
              /\ runs'[r].fault =>
                    /\ status' = "error"
                    /\ hasErrors(runs'[r].lines)
                    /\ Len(output') >= Len(runs'[r].lines)
                    /\ SubSeq(output', Len(output') - Len(runs'[r].lines) + 1,
                              Len(output')) = runs'[r].lines
              /\ status' = "success" => ~hasErrors(runs'[r].lines)]_vars

(* C39: when no call of runCode is between the start and the end of
   runJavaScript, console.log, error, warn and info are the methods
   installed before any run *)
C39_ConsoleRestored ==
    (\A r \in Runs : runs[r].pc # "awaiting") => console = Native
====
